---- MODULE Spec2Model ----
(***************************************************************************)
(* Invoice processing pipeline of olive-analytics: the job store (Invoice  *)
(* collection), the worker's driver loop, the lease manager, the nine      *)
(* stage pipeline, the retry policy and the request handlers that write    *)
(* job records (cancel, reprocess, admin unlock).                          *)
(*                                                                         *)
(* A Mongoose document is an in-memory copy of a store record; save()      *)
(* writes only the paths assigned a different value since it was loaded.   *)
(* Every await of the code is a step boundary of the model.                *)
(***************************************************************************)
EXTENDS Integers, FiniteSets, Sequences, TLC

\* ------------------------------------------------------------ bounds
NJobs == 2
NWorkers == 2
NHashes == 2
\* requests admitted and processes terminated in one behaviour
MaxRequests == 1
MaxKills == 1
\* shop folders a scan finds and files it lists in one of them
NShops == 2
NFiles == 2
NScans == 2
\* length of a name or description, suppliers and line items resolved in
\* one behaviour, distinct SKUs
MaxNameLen == 2
MaxCalls == 3
MaxHistory == 11
NSkus == 2

\* ------------------------------------------------- program constants
MAX_RETRY_ATTEMPTS == 3
\* 30 * 60 * 1000 ms; the model's clock counts ticks of 30 minutes.
STUCK_INVOICE_TIMEOUT_MS == 1
\* default of the admin endpoint's timeoutMinutes, in the same ticks
DefaultTimeoutMinutes == 1

Jobs == 1..NJobs
Workers == 1..NWorkers
Hashes == 1..NHashes

\* Oldest age a timestamp is tracked to: past the timeout all ages are alike.
MaxAge == STUCK_INVOICE_TIMEOUT_MS

\* Invoice documents are inserted one after the other (timestamps: true), so
\* createdAt grows with the job number.
createdAt(j) == j

\* ------------------------------------------------------- the schema
Fields ==
  {"status", "stage", "attempts", "lockedAt", "lastError", "hashSha256",
   "originalS3Key", "processedS3Key", "totals", "lineItems", "supplierId",
   "context", "trendAnalysis", "recommendations"}

\* processing.lastError values
NoError == [kind |-> "none", ref |-> 0]
ErrorMessage(kind) == [kind |-> kind, ref |-> 0]
DuplicateError(j) == [kind |-> "Duplicate invoice detected", ref |-> j]

\* processing.lockedAt: <<>> when unset, else <<a>> for a timestamp that is at
\* least a ticks and less than a + 1 ticks old
NoLock == <<>>
LockedNow == <<0>>

\* A record as driveScanner creates it.
NewInvoice ==
  [status |-> "queued", stage |-> "queued", attempts |-> 0, lockedAt |-> NoLock,
   lastError |-> NoError, hashSha256 |-> 0, originalS3Key |-> "none",
   processedS3Key |-> "none", totals |-> "none", lineItems |-> "empty",
   supplierId |-> "none", context |-> "none", trendAnalysis |-> "none",
   recommendations |-> "empty"]

\* The nine stages in order, between the claim's label and the final one.
StageOrder ==
  <<"acquired", "downloading", "hashing", "uploading", "extracting",
    "resolving_entities", "classifying_context", "analyzing_trends",
    "generating_recommendations", "persisting", "completed">>

StageIndex(s) == CHOOSE i \in 1..Len(StageOrder) : StageOrder[i] = s

\* variant: the extraction stage is left out
SkipExtracting(s) ==
  IF s = "uploading" THEN "resolving_entities" ELSE StageOrder[StageIndex(s) + 1]

\* The stage processInvoiceStages checkpoints after stage s.
NextStage(s) == StageOrder[StageIndex(s) + 1]

PipelineStages == {StageOrder[i] : i \in 2..10}

VARIABLES
  store,          \* Invoice collection: job id -> persisted record
  content,        \* job id -> SHA-256 of the bytes its Drive file holds
  folder,         \* job id -> Drive folder its source file is in
  pc,             \* worker -> position in workerLoop / processInvoice
  invoice,        \* worker -> the document processInvoice holds
  stuckInvoices,  \* worker -> documents unlockStuckInvoices still has to save
  timer,          \* worker -> how workerLoop scheduled its next tick
  req,            \* the request handler in flight, if any
  faults,         \* which external calls the environment lets fail
  requests,       \* requests admitted so far
  kills,          \* worker processes terminated so far
  reached2,       \* history: the jobs in the order they first reached stage 2
  claimed,        \* history: job id -> how often acquireAndLockInvoice returned it
                  \* since the initial state
  scan,           \* scan -> its DriveScan record, once POST /scan-drive created it
  scanner,        \* scan -> scanDriveForInvoices in flight: position and locals
  invoices,       \* the Invoice documents the scans see, in insertion order
  suppliers,      \* the Supplier collection, in insertion order
  parts,          \* the Part collection, in insertion order
  returned,       \* the last entity-resolution call: its input and the document
                  \* it returned or worked on
  seen,           \* history: the normalized descriptions resolveOrCreateParts handled
  calls,          \* suppliers and line items resolved so far
  history,        \* totals of the processed invoices of one shop and supplier,
                  \* most recent invoiceDate first
  trend           \* the call of analyzeTrends: its inputs and what it returned

\* The pipeline's state, the scan's and the entity collections'.
jobVars ==
  <<store, content, folder, pc, invoice, stuckInvoices, timer, req, faults,
    requests, kills, reached2, claimed>>

scanVars == <<scan, scanner, invoices>>

entityVars == <<suppliers, parts, returned, seen, calls>>

trendVars == <<history, trend>>

vars ==
  <<store, content, folder, pc, invoice, stuckInvoices, timer, req, faults,
    requests, kills, reached2, claimed, scan, scanner, invoices, suppliers, parts,
    returned, seen, calls, history, trend>>

\* ------------------------------------------------ Mongoose documents
NoDoc == [id |-> 0]

\* A copy of a persisted record, nothing modified, as findOne / find /
\* findById / findOneAndUpdate return it. The copy's lockedAt is read only for
\* the minutes quoted in log and lastError text and is otherwise assigned
\* undefined, so the copy keeps whether the field is set and not how old the
\* timestamp is.
Copy(j, r) ==
  [f \in Fields \cup {"id", "dirty"} |->
     IF f = "id" THEN j
     ELSE IF f = "dirty" THEN {}
     ELSE IF f = "lockedAt" THEN (IF r.lockedAt = NoLock THEN NoLock ELSE LockedNow)
     ELSE r[f]]

Load(j) == Copy(j, store[j])

\* doc.path = v: Mongoose marks the path modified only when the value changes.
Set(doc, f, v) ==
  IF doc[f] = v THEN doc ELSE [doc EXCEPT ![f] = v, !.dirty = @ \cup {f}]

\* doc.save(): $set / $unset of the modified paths only.
Save(st, doc) ==
  [st EXCEPT ![doc.id] =
     [f \in Fields |-> IF f \in doc.dirty THEN doc[f] ELSE @[f]]]

Saved(doc) == [doc EXCEPT !.dirty = {}]

\* ------------------------------------------------------------ clock
Aged(l) == IF l = NoLock THEN NoLock ELSE <<IF l[1] < MaxAge THEN l[1] + 1 ELSE MaxAge>>

\* 'processing.lockedAt': { $lt: new Date(Date.now() - timeout) }
OlderThan(l, timeout) == l # NoLock /\ l[1] >= timeout

\* variant: the sweep's query matches no document
IsStuckNever(r, timeout) == FALSE

\* --------------------------------------------------- lease manager
\* unlockStuckInvoices' query: status 'processing' and lockedAt older than the
\* timeout.
IsStuck(r, timeout) == r.status = "processing" /\ OlderThan(r.lockedAt, timeout)

\* variant: the status is left at processing
UnlockKeepingStatus(doc, message) ==
  Set(Set(Set(doc, "stage", "queued"), "lockedAt", NoLock), "lastError", ErrorMessage(message))

\* variant: the unlock also gives the job a fresh retry budget
UnlockedResettingAttempts(doc, message) ==
  Set(Set(Set(Set(Set(doc, "status", "queued"), "stage", "queued"), "lockedAt", NoLock),
          "lastError", ErrorMessage(message)), "attempts", 0)

\* The assignments unlockStuckInvoices makes to one stuck document.
Unlocked(doc, message) ==
  Set(Set(Set(Set(doc, "status", "queued"), "stage", "queued"), "lockedAt", NoLock),
      "lastError", ErrorMessage(message))

\* variant: only a job that never failed is claimable
ClaimFilterFirstAttempt(r) == r.status = "queued" /\ r.attempts = 0

\* variant: the filter has no attempts clause
ClaimFilterAnyAttempts(r) == r.status = "queued"

\* The filter of findOneAndUpdate in acquireAndLockInvoice.
ClaimFilter(r) == r.status = "queued" /\ r.attempts < MAX_RETRY_ATTEMPTS

Eligible == {j \in Jobs : ClaimFilter(store[j])}

\* variant: sort: { createdAt: -1 }
NewestFirst(E) == CHOOSE j \in E : \A i \in E : createdAt(i) <= createdAt(j)

\* sort: { createdAt: 1 }: the match findOneAndUpdate picks among the set E.
OldestFirst(E) == CHOOSE j \in E : \A i \in E : createdAt(j) <= createdAt(i)

\* variant: the update does not set the status
ClaimUpdateNoStatus(r) == [r EXCEPT !.stage = "acquired", !.lockedAt = LockedNow]

\* The $set of findOneAndUpdate applied to a record.
ClaimUpdate(r) ==
  [r EXCEPT !.status = "processing", !.stage = "acquired", !.lockedAt = LockedNow]

\* ------------------------------------------------------ retry policy
\* variant: no terminal branch
CatchUpdateNoCeiling(doc, err) ==
  LET d == Set(Set(doc, "attempts", doc.attempts + 1), "lastError", err)
  IN  Set(Set(Set(d, "status", "queued"), "stage", "queued"), "lockedAt", NoLock)

\* variant: attempts is not incremented
CatchUpdateKeepAttempts(doc, err) ==
  LET d == Set(doc, "lastError", err)
  IN  IF d.attempts >= MAX_RETRY_ATTEMPTS
      THEN Set(Set(d, "status", "failed"), "stage", "failed")
      ELSE Set(Set(Set(d, "status", "queued"), "stage", "queued"), "lockedAt", NoLock)

\* variant: the retry branch leaves the stage where the attempt stopped
CatchUpdateKeepStage(doc, err) ==
  LET d == Set(Set(doc, "attempts", doc.attempts + 1), "lastError", err)
  IN  IF d.attempts >= MAX_RETRY_ATTEMPTS
      THEN Set(Set(d, "status", "failed"), "stage", "failed")
      ELSE Set(Set(d, "status", "queued"), "lockedAt", NoLock)

\* variant: a duplicate-content error is re-queued without counting the attempt
CatchUpdateSparingDuplicates(doc, err) ==
  LET d == Set(Set(doc, "attempts",
                   IF err.kind = "Duplicate invoice detected" THEN doc.attempts ELSE doc.attempts + 1),
               "lastError", err)
  IN  IF d.attempts >= MAX_RETRY_ATTEMPTS
      THEN Set(Set(d, "status", "failed"), "stage", "failed")
      ELSE Set(Set(Set(d, "status", "queued"), "stage", "queued"), "lockedAt", NoLock)

\* variant: the retry branch leaves the lease timestamp in place
CatchUpdateKeepLease(doc, err) ==
  LET d == Set(Set(doc, "attempts", doc.attempts + 1), "lastError", err)
  IN  IF d.attempts >= MAX_RETRY_ATTEMPTS
      THEN Set(Set(d, "status", "failed"), "stage", "failed")
      ELSE Set(Set(d, "status", "queued"), "stage", "queued")

\* The catch block of processInvoice, up to (not including) its save.
CatchUpdate(doc, err) ==
  LET d == Set(Set(doc, "attempts", doc.attempts + 1), "lastError", err)
  IN  IF d.attempts >= MAX_RETRY_ATTEMPTS
      THEN Set(Set(d, "status", "failed"), "stage", "failed")
      ELSE Set(Set(Set(d, "status", "queued"), "stage", "queued"), "lockedAt", NoLock)

\* --------------------------------------------------- collaborators
\* Outcome of an external call: it returns or it throws. The kinds are "drive"
\* (downloadFile), "s3" (uploadToS3), "db" (entity resolution), "ai" (the
\* three analysis collaborators) and "move" (getFolderId + moveFile); a call
\* of a kind the environment keeps healthy always returns.
Outcomes(kind) == IF kind \in faults THEN {"ok", "throws"} ELSE {"ok"}

\* variant: only processed jobs count as duplicates
DuplicatesAmongProcessed(j, hash) ==
  {i \in Jobs \ {j} : store[i].hashSha256 = hash /\ store[i].status = "processed"}

\* Invoice.findOne({ hashSha256: hash, _id: { $ne: invoice._id } })
Duplicates(j, hash) == {i \in Jobs \ {j} : store[i].hashSha256 = hash}

\* variant: the error propagates to the pipeline
ClassifyPropagating(outcome) == IF outcome = "ok" THEN "classified" ELSE "throws"

\* classifyPurchaseContext: the catch returns the default classification.
classifyPurchaseContext(outcome) == IF outcome = "ok" THEN "classified" ELSE "default_routine"

\* variant: the error propagates to the pipeline
RecommendPropagating(outcome) == IF outcome = "ok" THEN "list" ELSE "throws"

\* generateSavingsRecommendations: the catch returns [].
generateSavingsRecommendations(outcome) == IF outcome = "ok" THEN "list" ELSE "empty"

\* analyzeTrends' query: processed invoices of the same shop and supplier
\* other than j.
Historical(j, supplier) ==
  {i \in Jobs \ {j} : store[i].status = "processed" /\ store[i].supplierId = supplier}

\* variant: the error propagates to the pipeline
AnalyzePropagating(j, supplier, outcome) ==
  IF outcome = "throws" THEN "throws"
  ELSE IF Historical(j, supplier) = {} THEN "no_history" ELSE "numeric"

\* analyzeTrends: a note without history, numbers with it; the catch returns
\* a note.
analyzeTrends(j, supplier, outcome) ==
  IF outcome = "throws" THEN "error_note"
  ELSE IF Historical(j, supplier) = {} THEN "no_history" ELSE "numeric"

\* moveFile after getFolderId: the file lands in the target folder, or either
\* call throws and the file stays where it is.
\* variant: a failed lookup or move aborts the handler before its save
AfterMovePropagating(outcome, next) ==
  IF outcome = "throws" THEN "aborted" ELSE next

\* Where a handler continues after its getFolderId + moveFile block: the
\* block's catch only logs, so the handler goes on to its save either way.
AfterMove(outcome, next) == next

MoveFile(j, target, outcome) ==
  [folder EXCEPT ![j] = IF outcome = "ok" THEN target ELSE @]

\* variant: the loop reschedules itself at once whatever processInvoice did
ScheduleAlwaysImmediate(result) == "setImmediate"

\* variant: the catch block of workerLoop schedules nothing
ScheduleNotOnError(result) ==
  IF result = "invoice" THEN "setImmediate"
  ELSE IF result = "null" THEN "setTimeout" ELSE "none"

\* ------------------------------------------------------ worker steps
\* workerLoop's three exits: setTimeout after null or a throw, setImmediate
\* after an invoice.
Schedule(result) == IF result = "invoice" THEN "setImmediate" ELSE "setTimeout"

Return(w, result) ==
  /\ pc' = [pc EXCEPT ![w] = "idle"]
  /\ invoice' = [invoice EXCEPT ![w] = NoDoc]
  /\ timer' = [timer EXCEPT ![w] = Schedule(result)]

\* acquireAndLockInvoice, first await: unlockStuckInvoices' find.
SweepFind(w) ==
  /\ pc[w] = "idle"
  /\ LET found == {Load(j) : j \in {i \in Jobs : IsStuck(store[i], STUCK_INVOICE_TIMEOUT_MS)}}
     IN  /\ stuckInvoices' = [stuckInvoices EXCEPT ![w] = found]
         /\ pc' = [pc EXCEPT ![w] = IF found = {} THEN "claim" ELSE "unlocking"]
  /\ timer' = [timer EXCEPT ![w] = "running"]
  /\ UNCHANGED <<store, content, faults, requests, kills, folder, invoice, req, reached2, claimed, scanVars, entityVars, trendVars>>

\* unlockStuckInvoices, one turn of its loop: assign and save one document.
UnlockOne(w) ==
  /\ pc[w] = "unlocking"
  /\ \E d \in stuckInvoices[w] :
       /\ store' = Save(store, Unlocked(d, "Automatically unlocked"))
       /\ stuckInvoices' = [stuckInvoices EXCEPT ![w] = @ \ {d}]
       /\ pc' = [pc EXCEPT ![w] = IF stuckInvoices[w] = {d} THEN "claim" ELSE "unlocking"]
  /\ UNCHANGED <<content, faults, requests, kills, folder, invoice, timer, req, reached2, claimed, scanVars, entityVars, trendVars>>

\* acquireAndLockInvoice, the atomic findOneAndUpdate, and processInvoice's
\* return of null when it finds nothing.
Claim(w) ==
  /\ pc[w] = "claim"
  /\ IF Eligible = {}
     THEN /\ Return(w, "null")
          /\ UNCHANGED <<store, claimed>>
     ELSE LET j == OldestFirst(Eligible)
          IN  /\ store' = [store EXCEPT ![j] = ClaimUpdate(@)]
              /\ invoice' = [invoice EXCEPT ![w] = Copy(j, store'[j])]
              /\ pc' = [pc EXCEPT ![w] = "acquired"]
              /\ claimed' = [claimed EXCEPT ![j] = @ + 1]
              /\ UNCHANGED timer
  /\ UNCHANGED <<content, faults, requests, kills, folder, stuckInvoices, req, reached2, scanVars, entityVars, trendVars>>

\* variant: the error leaves processInvoice before the catch block's save
ThrowBeforeSave(w, doc, err) ==
  /\ Return(w, "throws")
  /\ UNCHANGED store

\* The catch block of processInvoice when the stage sequence throws err: the
\* retry branch saves at once, the terminal branch moves the file first.
Throw(w, doc, err) ==
  LET d == CatchUpdate(doc, err)
  IN  IF d.status = "failed"
      THEN /\ invoice' = [invoice EXCEPT ![w] = d]
           /\ pc' = [pc EXCEPT ![w] = "fail_move"]
           /\ UNCHANGED <<store, timer>>
      ELSE /\ store' = Save(store, d)
           /\ Return(w, "throws")

\* variant: the stage is assigned in memory and the save is left out
CheckpointInMemory(w, doc) ==
  LET d == Set(doc, "stage", NextStage(doc.stage))
  IN  /\ invoice' = [invoice EXCEPT ![w] = d]
      /\ pc' = [pc EXCEPT ![w] = d.stage]
      /\ UNCHANGED <<store, timer>>

\* invoice.processing.stage = <next>; await invoice.save()
Checkpoint(w, doc) ==
  LET d == Set(doc, "stage", NextStage(doc.stage))
  IN  /\ store' = Save(store, d)
      /\ invoice' = [invoice EXCEPT ![w] = Saved(d)]
      /\ pc' = [pc EXCEPT ![w] = d.stage]
      /\ UNCHANGED timer

\* Stage 1 checkpoint, right after the claim.
BeginStages(w) ==
  /\ pc[w] = "acquired"
  /\ Checkpoint(w, invoice[w])
  /\ UNCHANGED <<content, faults, requests, kills, folder, stuckInvoices, req, reached2, claimed, scanVars, entityVars, trendVars>>

\* Stage 1: downloadFile, then the stage 2 checkpoint.
Download(w) ==
  /\ pc[w] = "downloading"
  /\ \E outcome \in Outcomes("drive") :
       IF outcome = "throws"
       THEN Throw(w, invoice[w], ErrorMessage("stage error")) /\ UNCHANGED reached2
       ELSE /\ Checkpoint(w, invoice[w])
            /\ reached2' = IF \E n \in 1..Len(reached2) : reached2[n] = invoice[w].id
                           THEN reached2
                           ELSE Append(reached2, invoice[w].id)
  /\ UNCHANGED <<content, faults, requests, kills, folder, stuckInvoices, req, claimed, scanVars, entityVars, trendVars>>

\* Stage 2: hash the bytes and query the store for another job with the hash.
Hash(w) ==
  /\ pc[w] = "hashing"
  /\ LET d == Set(invoice[w], "hashSha256", content[invoice[w].id])
         dup == Duplicates(d.id, d.hashSha256)
     IN  IF dup # {}
         THEN \E i \in dup : Throw(w, d, DuplicateError(i))
         ELSE /\ invoice' = [invoice EXCEPT ![w] = d]
              /\ pc' = [pc EXCEPT ![w] = "checked"]
              /\ UNCHANGED <<store, timer>>
  /\ UNCHANGED <<content, faults, requests, kills, folder, stuckInvoices, req, reached2, claimed, scanVars, entityVars, trendVars>>

\* Stage 3 checkpoint: the first save after the hash was assigned.
AfterHash(w) ==
  /\ pc[w] = "checked"
  /\ Checkpoint(w, invoice[w])
  /\ UNCHANGED <<content, faults, requests, kills, folder, stuckInvoices, req, reached2, claimed, scanVars, entityVars, trendVars>>

\* Stage 3: uploadToS3 of the original, then the stage 4 checkpoint.
Upload(w) ==
  /\ pc[w] = "uploading"
  /\ \E outcome \in Outcomes("s3") :
       IF outcome = "throws"
       THEN Throw(w, invoice[w], ErrorMessage("stage error"))
       ELSE Checkpoint(w, Set(invoice[w], "originalS3Key", "original"))
  /\ UNCHANGED <<content, faults, requests, kills, folder, stuckInvoices, req, reached2, claimed, scanVars, entityVars, trendVars>>

\* Stage 4: extractInvoiceData (the placeholder returns its fixed data), then
\* the stage 5 checkpoint.
Extract(w) ==
  /\ pc[w] = "extracting"
  /\ Checkpoint(w, Set(Set(invoice[w], "totals", "totals"), "lineItems", "items"))
  /\ UNCHANGED <<content, faults, requests, kills, folder, stuckInvoices, req, reached2, claimed, scanVars, entityVars, trendVars>>

\* Stage 5: resolveOrCreateShop / Supplier / Parts, then the stage 6 checkpoint.
Resolve(w) ==
  /\ pc[w] = "resolving_entities"
  /\ \E outcome \in Outcomes("db") :
       IF outcome = "throws"
       THEN Throw(w, invoice[w], ErrorMessage("stage error"))
       ELSE Checkpoint(w, Set(invoice[w], "supplierId", "supplier"))
  /\ UNCHANGED <<content, faults, requests, kills, folder, stuckInvoices, req, reached2, claimed, scanVars, entityVars, trendVars>>

\* Stage 6: classifyPurchaseContext, then the stage 7 checkpoint.
Classify(w) ==
  /\ pc[w] = "classifying_context"
  /\ \E outcome \in Outcomes("ai") :
       LET context == classifyPurchaseContext(outcome)
       IN  IF context = "throws"
           THEN Throw(w, invoice[w], ErrorMessage("stage error"))
           ELSE Checkpoint(w, Set(invoice[w], "context", context))
  /\ UNCHANGED <<content, faults, requests, kills, folder, stuckInvoices, req, reached2, claimed, scanVars, entityVars, trendVars>>

\* Stage 7: analyzeTrends, then the stage 8 checkpoint.
Analyze(w) ==
  /\ pc[w] = "analyzing_trends"
  /\ \E outcome \in Outcomes("ai") :
       LET analysed == analyzeTrends(invoice[w].id, invoice[w].supplierId, outcome)
       IN  IF analysed = "throws"
           THEN Throw(w, invoice[w], ErrorMessage("stage error"))
           ELSE Checkpoint(w, Set(invoice[w], "trendAnalysis", analysed))
  /\ UNCHANGED <<content, faults, requests, kills, folder, stuckInvoices, req, reached2, claimed, scanVars, entityVars, trendVars>>

\* Stage 8: generateSavingsRecommendations, then the stage 9 checkpoint.
Recommend(w) ==
  /\ pc[w] = "generating_recommendations"
  /\ \E outcome \in Outcomes("ai") :
       LET recs == generateSavingsRecommendations(outcome)
       IN  IF recs = "throws"
           THEN Throw(w, invoice[w], ErrorMessage("stage error"))
           ELSE Checkpoint(w, Set(invoice[w], "recommendations", recs))
  /\ UNCHANGED <<content, faults, requests, kills, folder, stuckInvoices, req, reached2, claimed, scanVars, entityVars, trendVars>>

\* variant: finalization leaves the status alone
FinalizeKeepStatus(doc) == Set(doc, "stage", "completed")

\* Finalization, in memory: status and stage are assigned before the move.
Finalize(doc) == Set(Set(doc, "status", "processed"), "stage", "completed")

\* Stage 9: uploadToS3 of the processed artifact; processInvoiceStages returns.
Persist(w) ==
  /\ pc[w] = "persisting"
  /\ \E outcome \in Outcomes("s3") :
       IF outcome = "throws"
       THEN Throw(w, invoice[w], ErrorMessage("stage error"))
       ELSE /\ invoice' = [invoice EXCEPT ![w] =
                 Finalize(Set(invoice[w], "processedS3Key", "processed"))]
            /\ pc' = [pc EXCEPT ![w] = "fin_move"]
            /\ UNCHANGED <<store, timer>>
  /\ UNCHANGED <<content, faults, requests, kills, folder, stuckInvoices, req, reached2, claimed, scanVars, entityVars, trendVars>>

\* Finalization: getFolderId + moveFile to 'processed', errors swallowed.
FinalizeMove(w) ==
  /\ pc[w] = "fin_move"
  /\ \E outcome \in Outcomes("move") :
       /\ folder' = MoveFile(invoice[w].id, "processed", outcome)
       /\ pc' = [pc EXCEPT ![w] = AfterMove(outcome, "fin_save")]
  /\ UNCHANGED <<store, content, faults, requests, kills, invoice, stuckInvoices, timer, req, reached2, claimed, scanVars, entityVars, trendVars>>

\* Finalization: await invoice.save(); return invoice.
FinalizeSave(w) ==
  /\ pc[w] = "fin_save"
  /\ store' = Save(store, invoice[w])
  /\ Return(w, "invoice")
  /\ UNCHANGED <<content, faults, requests, kills, folder, stuckInvoices, req, reached2, claimed, scanVars, entityVars, trendVars>>

\* Terminal failure: getFolderId + moveFile to 'failed', errors swallowed.
FailMove(w) ==
  /\ pc[w] = "fail_move"
  /\ \E outcome \in Outcomes("move") :
       /\ folder' = MoveFile(invoice[w].id, "failed", outcome)
       /\ pc' = [pc EXCEPT ![w] = AfterMove(outcome, "fail_save")]
  /\ UNCHANGED <<store, content, faults, requests, kills, invoice, stuckInvoices, timer, req, reached2, claimed, scanVars, entityVars, trendVars>>

\* Terminal failure: await invoice.save(); throw error.
FailSave(w) ==
  /\ pc[w] = "fail_save"
  /\ store' = Save(store, invoice[w])
  /\ Return(w, "throws")
  /\ UNCHANGED <<content, faults, requests, kills, folder, stuckInvoices, req, reached2, claimed, scanVars, entityVars, trendVars>>

\* SIGTERM / SIGINT: process.exit(0) wherever the worker is.
Terminate(w) ==
  /\ pc[w] # "stopped"
  /\ kills < MaxKills
  /\ kills' = kills + 1
  /\ pc' = [pc EXCEPT ![w] = "stopped"]
  /\ invoice' = [invoice EXCEPT ![w] = NoDoc]
  /\ stuckInvoices' = [stuckInvoices EXCEPT ![w] = {}]
  /\ timer' = [timer EXCEPT ![w] = "none"]
  /\ UNCHANGED <<store, content, faults, requests, folder, req, reached2, claimed, scanVars, entityVars, trendVars>>

\* startWorker: connect, then call workerLoop.
StartWorker(w) ==
  /\ pc[w] = "stopped"
  /\ pc' = [pc EXCEPT ![w] = "idle"]
  /\ timer' = [timer EXCEPT ![w] = "direct"]
  /\ UNCHANGED <<store, content, faults, requests, kills, folder, invoice, stuckInvoices, req, reached2, claimed, scanVars, entityVars, trendVars>>

\* Thirty minutes pass: every persisted lease is one tick older.
Tick ==
  /\ \E j \in Jobs : store[j].lockedAt # NoLock /\ store[j].lockedAt[1] < MaxAge
  /\ store' = [j \in Jobs |-> [store[j] EXCEPT !.lockedAt = Aged(@)]]
  /\ UNCHANGED <<content, faults, requests, kills, folder, pc, invoice, stuckInvoices, timer, req, reached2, claimed, scanVars, entityVars, trendVars>>

WorkerStep(w) ==
  \/ SweepFind(w) \/ UnlockOne(w) \/ Claim(w)
  \/ BeginStages(w) \/ Download(w) \/ Hash(w) \/ AfterHash(w) \/ Upload(w)
  \/ Extract(w) \/ Resolve(w) \/ Classify(w) \/ Analyze(w) \/ Recommend(w)
  \/ Persist(w) \/ FinalizeMove(w) \/ FinalizeSave(w) \/ FailMove(w) \/ FailSave(w)

\* -------------------------------------------------- request handlers
NoRequest == [op |-> "none", docs |-> {}]

\* POST /:invoiceId/cancel, the assignments before its save.
Cancelled(doc) ==
  Set(Set(Set(Set(Set(doc, "status", "queued"), "stage", "queued"), "attempts", 0),
          "lockedAt", NoLock),
      "lastError", ErrorMessage("Processing cancelled by user"))

\* variant: reprocess leaves the attempt count alone
ReprocessedKeepAttempts(doc) ==
  Set(Set(Set(Set(doc, "status", "queued"), "stage", "queued"), "lockedAt", NoLock),
      "lastError", NoError)

\* POST /:invoiceId/reprocess, the assignments before its save.
Reprocessed(doc) ==
  Set(Set(Set(Set(Set(doc, "status", "queued"), "stage", "queued"), "attempts", 0),
          "lockedAt", NoLock),
      "lastError", NoError)

\* cancel: findById; only a job that is processing is accepted, any other
\* status is answered with 400 and the handler returns.
CancelLoad(j) ==
  /\ req.op = "none"
  /\ requests < MaxRequests
  /\ requests' = requests + 1
  /\ req' = IF store[j].status = "processing"
            THEN [op |-> "cancel_loaded", docs |-> {Load(j)}]
            ELSE NoRequest
  /\ UNCHANGED <<store, content, faults, kills, folder, pc, invoice, stuckInvoices, timer, reached2, claimed, scanVars, entityVars, trendVars>>

\* cancel: getFolderId + moveFile to 'unprocessed', errors swallowed.
CancelMove ==
  /\ req.op = "cancel_loaded"
  /\ \E d \in req.docs, outcome \in Outcomes("move") :
       /\ folder' = MoveFile(d.id, "unprocessed", outcome)
       /\ req' = [req EXCEPT !.op = AfterMove(outcome, "cancel_moved")]
  /\ UNCHANGED <<store, content, faults, requests, kills, pc, invoice, stuckInvoices, timer, reached2, claimed, scanVars, entityVars, trendVars>>

\* cancel: reset to queued and save.
CancelSave ==
  /\ req.op = "cancel_moved"
  /\ \E d \in req.docs : store' = Save(store, Cancelled(d))
  /\ req' = NoRequest
  /\ UNCHANGED <<content, faults, requests, kills, folder, pc, invoice, stuckInvoices, timer, reached2, claimed, scanVars, entityVars, trendVars>>

\* reprocess: findById; the move is attempted for a processed or failed job.
ReprocessLoad(j) ==
  /\ req.op = "none"
  /\ requests < MaxRequests
  /\ requests' = requests + 1
  /\ req' = [op |-> IF store[j].status \in {"processed", "failed"}
                    THEN "reprocess_loaded" ELSE "reprocess_moved",
             docs |-> {Load(j)}]
  /\ UNCHANGED <<store, content, faults, kills, folder, pc, invoice, stuckInvoices, timer, reached2, claimed, scanVars, entityVars, trendVars>>

\* reprocess: getFolderId + moveFile to 'unprocessed', errors swallowed.
ReprocessMove ==
  /\ req.op = "reprocess_loaded"
  /\ \E d \in req.docs, outcome \in Outcomes("move") :
       /\ folder' = MoveFile(d.id, "unprocessed", outcome)
       /\ req' = [req EXCEPT !.op = AfterMove(outcome, "reprocess_moved")]
  /\ UNCHANGED <<store, content, faults, requests, kills, pc, invoice, stuckInvoices, timer, reached2, claimed, scanVars, entityVars, trendVars>>

\* reprocess: reset to queued and save.
ReprocessSave ==
  /\ req.op = "reprocess_moved"
  /\ \E d \in req.docs : store' = Save(store, Reprocessed(d))
  /\ req' = NoRequest
  /\ UNCHANGED <<content, faults, requests, kills, folder, pc, invoice, stuckInvoices, timer, reached2, claimed, scanVars, entityVars, trendVars>>

\* POST /unlock-stuck-invoices: the find, with the request's timeoutMinutes;
\* an empty result is answered at once.
AdminFind(timeoutMinutes) ==
  /\ req.op = "none"
  /\ requests < MaxRequests
  /\ requests' = requests + 1
  /\ LET found == {Load(j) : j \in {i \in Jobs : IsStuck(store[i], timeoutMinutes)}}
     IN  /\ found # {}
         /\ req' = [op |-> "unlock", docs |-> found]
  /\ UNCHANGED <<store, content, faults, kills, folder, pc, invoice, stuckInvoices, timer, reached2, claimed, scanVars, entityVars, trendVars>>

\* POST /unlock-stuck-invoices, one turn of its loop.
AdminUnlockOne ==
  /\ req.op = "unlock"
  /\ \E d \in req.docs :
       /\ store' = Save(store, Unlocked(d, "Manually unlocked"))
       /\ req' = IF req.docs = {d} THEN NoRequest ELSE [req EXCEPT !.docs = @ \ {d}]
  /\ UNCHANGED <<content, faults, requests, kills, folder, pc, invoice, stuckInvoices, timer, reached2, claimed, scanVars, entityVars, trendVars>>

Cancel == (\E j \in Jobs : CancelLoad(j)) \/ CancelMove \/ CancelSave

Reprocess == (\E j \in Jobs : ReprocessLoad(j)) \/ ReprocessMove \/ ReprocessSave

AdminUnlock ==
  (\E t \in {0, DefaultTimeoutMinutes} : AdminFind(t)) \/ AdminUnlockOne

\* ------------------------------------------------------ Drive scan
Scans == 1..NScans

\* stats of a scan:
\* <<newInvoices, existingInvoices, skipped, errors, totalFound>>
NoStats == <<0, 0, 0, 0, 0>>

Count(stats, n) == [stats EXCEPT ![n] = @ + 1]

\* IScannedFile.status of the entry pushed together with stats[n]++.
Outcome == <<"new", "existing", "skipped", "error">>

\* The DriveScan record as persisted; "absent" before POST /scan-drive.
NoScan == [status |-> "absent", stats |-> NoStats, scannedFiles |-> <<>>, error |-> FALSE]

\* scanDriveForInvoices' locals: the shop folders found and the one it is
\* at, the files listed in it and the one it is at, its stats and its
\* scannedFiles; failed is history, the shop folders whose scan ended in
\* the loop's catch.
NoScanner ==
  [pc |-> "idle", shops |-> 0, shop |-> 0, files |-> 0, file |-> 0,
   stats |-> NoStats, scannedFiles |-> <<>>, failed |-> 0]

\* The id of the file the scan is at: Drive ids are unique, here the folder
\* and the position in its listing.
FileId(sc) == <<sc.shop, sc.file>>

\* new Invoice({ status: 'queued', driveFileId, processing: { stage:
\* 'queued', attempts: 0 } })
ScannedInvoice(fileId) ==
  [driveFileId |-> fileId, status |-> "queued", stage |-> "queued", attempts |-> 0]

\* variant: a scan that meets a file again puts its job back in the queue
Requeued(coll, fileId) ==
  [i \in 1..Len(coll) |->
     IF coll[i].driveFileId = fileId THEN ScannedInvoice(fileId) ELSE coll[i]]

\* The Invoice collection after a scan found a job for the file.
Existing(coll, fileId) == coll

\* The job an earlier scan created for the first file of the first shop
\* folder, claimed since and at its extraction stage after one failed attempt;
\* the file stays in the unprocessed folder until the job ends.
HeldInvoice ==
  [driveFileId |-> <<1, 1>>, status |-> "processing", stage |-> "extracting", attempts |-> 1]

\* Invoice.findOne({ driveFileId }): the documents that match.
InvoicesOf(fileId) == {i \in 1..Len(invoices) : invoices[i].driveFileId = fileId}

\* POST /scan-drive: save the record as pending, start the scan without
\* awaiting it, answer 202. Scan records are numbered in order of creation.
ScanDrive(s) ==
  /\ scan[s].status = "absent"
  /\ \A t \in 1..(s - 1) : scan[t].status # "absent"
  /\ scanner[s].pc = "idle"
  /\ scan' = [scan EXCEPT ![s] = [NoScan EXCEPT !.status = "pending"]]
  /\ scanner' = [scanner EXCEPT ![s] = [NoScanner EXCEPT !.pc = "started"]]
  /\ UNCHANGED <<invoices, jobVars, entityVars, trendVars>>

\* scanDriveForInvoices: findById, then status = 'running' and save.
ScanStart(s) ==
  /\ scanner[s].pc = "started"
  /\ scan' = [scan EXCEPT ![s].status = "running"]
  /\ scanner' = [scanner EXCEPT ![s].pc = "folders"]
  /\ UNCHANGED <<invoices, jobVars, entityVars, trendVars>>

\* The base folder check, findOrCreateFolder('Invoices') and the discovery
\* of the shop folders: an error here reaches the function's catch.
ScanFolders(s) ==
  /\ scanner[s].pc = "folders"
  /\ \E outcome \in Outcomes("drive"), n \in 0..NShops :
       scanner' = [scanner EXCEPT ![s] =
                     IF outcome = "throws" THEN [@ EXCEPT !.pc = "failing"]
                     ELSE IF n = 0 THEN [@ EXCEPT !.pc = "finishing"]
                     ELSE [@ EXCEPT !.pc = "shop", !.shops = n, !.shop = 1]]
  /\ UNCHANGED <<scan, invoices, jobVars, entityVars, trendVars>>

\* The loop over the shop folders, after the folder at hand.
NextShop(sc) ==
  IF sc.shop < sc.shops
  THEN [sc EXCEPT !.pc = "shop", !.shop = @ + 1, !.files = 0, !.file = 0]
  ELSE [sc EXCEPT !.pc = "finishing", !.files = 0, !.file = 0]

\* variant: an error inside one shop folder reaches the function's catch
ShopErrorPropagating(sc) == [sc EXCEPT !.pc = "failing"]

\* The catch inside the loop over the shop folders: count the error and go
\* on with the next folder.
ShopError(sc) == NextShop([sc EXCEPT !.stats = Count(@, 4), !.failed = @ + 1])

\* The loop over the files of a folder, after the entry of the file at hand
\* was pushed and counted under stats[n].
NextFile(sc, n) ==
  LET counted == [sc EXCEPT !.stats = Count(@, n),
                            !.scannedFiles = Append(@, [fileId |-> FileId(sc),
                                                        status |-> Outcome[n]])]
  IN  IF sc.file < sc.files
      THEN [counted EXCEPT !.pc = "file", !.file = @ + 1]
      ELSE NextShop(counted)

\* One shop folder: Shop.findOne / save, findOrCreateFolder('unprocessed')
\* and listFilesInFolder.
ScanShop(s) ==
  /\ scanner[s].pc = "shop"
  /\ \E outcome \in Outcomes("drive"), n \in 0..NFiles :
       scanner' = [scanner EXCEPT ![s] =
                     IF outcome = "throws" THEN ShopError(@)
                     ELSE IF n = 0 THEN NextShop(@)
                     ELSE [@ EXCEPT !.pc = "file", !.files = n, !.file = 1]]
  /\ UNCHANGED <<scan, invoices, jobVars, entityVars, trendVars>>

\* One file, up to the answer of Invoice.findOne: stats.totalFound++; an
\* unsupported type is skipped; a throw of the query ends the folder; an
\* existing invoice is counted; otherwise the scan goes on to create one.
ScanFile(s) ==
  /\ scanner[s].pc = "file"
  /\ LET sc == [scanner[s] EXCEPT !.stats = Count(@, 5)]
     IN  \/ /\ scanner' = [scanner EXCEPT ![s] = NextFile(sc, 3)]
            /\ UNCHANGED invoices
         \/ \E outcome \in Outcomes("db") :
              IF outcome = "throws"
              THEN /\ scanner' = [scanner EXCEPT ![s] = ShopError(sc)]
                   /\ UNCHANGED invoices
              ELSE IF InvoicesOf(FileId(sc)) # {}
              THEN /\ scanner' = [scanner EXCEPT ![s] = NextFile(sc, 2)]
                   /\ invoices' = Existing(invoices, FileId(sc))
              ELSE /\ scanner' = [scanner EXCEPT ![s] = [sc EXCEPT !.pc = "create"]]
                   /\ UNCHANGED invoices
  /\ UNCHANGED <<scan, jobVars, entityVars, trendVars>>

\* The save of the new invoice: a throw is recorded as this file's error.
ScanCreate(s) ==
  /\ scanner[s].pc = "create"
  /\ \E outcome \in Outcomes("db") :
       IF outcome = "throws"
       THEN /\ scanner' = [scanner EXCEPT ![s] = NextFile(@, 4)]
            /\ UNCHANGED invoices
       ELSE /\ scanner' = [scanner EXCEPT ![s] = NextFile(@, 1)]
            /\ invoices' = Append(invoices, ScannedInvoice(FileId(scanner[s])))
  /\ UNCHANGED <<scan, jobVars, entityVars, trendVars>>

\* The end of the try block: scannedFiles, stats, status = 'completed', save.
ScanComplete(s) ==
  /\ scanner[s].pc = "finishing"
  /\ scan' = [scan EXCEPT ![s] = [@ EXCEPT !.status = "completed",
                                           !.stats = scanner[s].stats,
                                           !.scannedFiles = scanner[s].scannedFiles]]
  /\ scanner' = [scanner EXCEPT ![s].pc = "done"]
  /\ UNCHANGED <<invoices, jobVars, entityVars, trendVars>>

\* The function's catch: status = 'failed', error, save, rethrow.
ScanFail(s) ==
  /\ scanner[s].pc = "failing"
  /\ scan' = [scan EXCEPT ![s] = [@ EXCEPT !.status = "failed", !.error = TRUE]]
  /\ scanner' = [scanner EXCEPT ![s].pc = "done"]
  /\ UNCHANGED <<invoices, jobVars, entityVars, trendVars>>

\* ------------------------------------------------ entity resolution
\* Names are strings over a small alphabet with one upper-case letter and
\* the blank.
Chars == {"A", "a", "b", " "}

Names == UNION {[1..n -> Chars] : n \in 1..MaxNameLen}

\* String.prototype.toLowerCase
toLowerCase(s) == [i \in 1..Len(s) |-> IF s[i] = "A" THEN "a" ELSE s[i]]

\* String.prototype.trim
RECURSIVE trim(_)
trim(s) ==
  IF s = <<>> THEN s
  ELSE IF Head(s) = " " THEN trim(Tail(s))
  ELSE IF s[Len(s)] = " " THEN trim(SubSeq(s, 1, Len(s) - 1))
  ELSE s

\* supplierName.toLowerCase().trim()
Normalized(name) == trim(toLowerCase(name))

Includes(seq, x) == \E k \in 1..Len(seq) : seq[k] = x

\* Supplier.findOne({ $or: [{ normalizedName }, { aliases: { $in:
\* [normalizedName, supplierName] } }] }): the documents the query matches.
SupplierMatches(name) ==
  {i \in 1..Len(suppliers) :
     \/ suppliers[i].normalizedName = Normalized(name)
     \/ Includes(suppliers[i].aliases, Normalized(name))
     \/ Includes(suppliers[i].aliases, name)}

\* variant: the surface form is pushed without the includes check
WithAliasAlways(supplier, name) ==
  [supplier EXCEPT !.aliases = Append(@, name)]

\* if (!supplier.aliases.includes(supplierName)) aliases.push(supplierName)
WithAlias(supplier, name) ==
  IF Includes(supplier.aliases, name) THEN supplier
  ELSE [supplier EXCEPT !.aliases = Append(@, name)]

NoSku == 0

NoCall == [op |-> "none", name |-> <<>>, sku |-> NoSku, id |-> 0]

\* resolveOrCreateSupplier(name). The schema requires normalizedName, so
\* the save of a new supplier whose normalized name is empty throws.
ResolveSupplier(name) ==
  /\ calls < MaxCalls
  /\ calls' = calls + 1
  /\ IF SupplierMatches(name) = {}
     THEN IF Normalized(name) = <<>>
          THEN /\ returned' = [NoCall EXCEPT !.op = "throws", !.name = name]
               /\ UNCHANGED suppliers
          ELSE /\ suppliers' = Append(suppliers,
                    [normalizedName |-> Normalized(name), aliases |-> <<name>>])
               /\ returned' = [NoCall EXCEPT !.op = "supplier", !.name = name,
                                              !.id = Len(suppliers')]
     ELSE \E i \in SupplierMatches(name) :
            /\ suppliers' = [suppliers EXCEPT ![i] = WithAlias(@, name)]
            /\ returned' = [NoCall EXCEPT !.op = "supplier", !.name = name, !.id = i]
  /\ UNCHANGED <<parts, seen, jobVars, scanVars, trendVars>>

Skus == 1..NSkus

\* A line item: its description and its sku, NoSku when it has none.
LineItems == [description : Names, sku : Skus \cup {NoSku}]

\* Part.findOne({ $or: [{ normalizedDesc }, ...(item.sku ? [{ sku }] : [])] }):
\* the documents the query matches.
PartMatches(item) ==
  {i \in 1..Len(parts) :
     \/ parts[i].normalizedDesc = Normalized(item.description)
     \/ item.sku # NoSku /\ parts[i].sku = item.sku}

\* variant: the item's sku replaces the part's
SkuOverwritten(part, sku) ==
  IF sku # NoSku THEN [part EXCEPT !.sku = sku] ELSE part

\* if (!part.sku && item.sku) part.sku = item.sku
Backfilled(part, sku) ==
  IF part.sku = NoSku /\ sku # NoSku THEN [part EXCEPT !.sku = sku] ELSE part

\* resolveOrCreateParts, one turn of its loop over the line items. The
\* schema requires normalizedDesc, so the save of a new part whose
\* normalized description is empty throws and ends the call.
ResolvePart(item) ==
  /\ calls < MaxCalls
  /\ calls' = calls + 1
  /\ IF PartMatches(item) = {}
     THEN IF Normalized(item.description) = <<>>
          THEN /\ returned' = [NoCall EXCEPT !.op = "throws", !.name = item.description,
                                              !.sku = item.sku]
               /\ UNCHANGED <<parts, seen>>
          ELSE /\ parts' = Append(parts,
                    [normalizedDesc |-> Normalized(item.description), sku |-> item.sku])
               /\ returned' = [op |-> "part", name |-> item.description,
                               sku |-> item.sku, id |-> Len(parts')]
               /\ seen' = seen \cup {Normalized(item.description)}
     ELSE \E i \in PartMatches(item) :
            /\ parts' = [parts EXCEPT ![i] = Backfilled(@, item.sku)]
            /\ returned' = [op |-> "part", name |-> item.description,
                            sku |-> item.sku, id |-> i]
            /\ seen' = seen \cup ({Normalized(item.description)} \ {<<>>})
  /\ UNCHANGED <<suppliers, jobVars, scanVars, trendVars>>

\* --------------------------------------------------- trend analysis
\* .limit(10) of analyzeTrends' query.
HISTORY_LIMIT == 10

\* totals.total of an invoice; 0 stands for a missing total as well
\* (inv.totals?.total || 0).
Totals == {0, 4, 6}

\* No call of analyzeTrends yet. A result has numeric = TRUE when it carries
\* priceChange, priceChangePercent and volatility; priceChange is the
\* fraction <<numerator, denominator>>.
NoTrend ==
  [op |-> "none", total |-> 0, items |-> 0, numeric |-> FALSE,
   priceChange |-> <<0, 1>>, anomalies |-> {}]

RECURSIVE Sum(_)
Sum(seq) == IF seq = <<>> THEN 0 ELSE Head(seq) + Sum(Tail(seq))

Abs(x) == IF x < 0 THEN -x ELSE x

\* Invoice.find({ shopId, supplierId, status: 'processed', _id: { $ne } })
\*   .sort({ invoiceDate: -1 }).limit(10), as the totals of what it returns.
HistoricalInvoices(all) ==
  SubSeq(all, 1, IF Len(all) < HISTORY_LIMIT THEN Len(all) ELSE HISTORY_LIMIT)

\* .map((inv) => inv.totals?.total || 0).filter((total) => total > 0)
HistoricalTotals(found) == SelectSeq(found, LAMBDA total : total > 0)

\* variant: a deviation of exactly 20% is flagged as well
ReachesThreshold(currentTotal, sum, n) == 5 * Abs(currentTotal * n - sum) >= sum

\* Math.abs(priceChange) > avgHistorical * 0.2, on sum and count of the
\* historical totals: |current - sum/n| > sum/n / 5.
ExceedsThreshold(currentTotal, sum, n) == 5 * Abs(currentTotal * n - sum) > sum

\* The body of analyzeTrends' try block after the query returned found.
TrendAnalysisResult(found, currentTotal, items) ==
  LET totals == HistoricalTotals(found)
      n == Len(totals)
      call == [NoTrend EXCEPT !.op = "ok", !.total = currentTotal, !.items = items]
  IN  IF Len(found) = 0
      THEN [call EXCEPT !.anomalies = {"No historical data available for comparison"}]
      ELSE IF n = 0
      THEN [call EXCEPT !.anomalies = {"Historical invoices missing total amounts"}]
      ELSE [call EXCEPT
              !.numeric = TRUE,
              !.priceChange = <<currentTotal * n - Sum(totals), n>>,
              !.anomalies =
                (IF ExceedsThreshold(currentTotal, Sum(totals), n)
                 THEN {"price"} ELSE {})
                  \cup (IF items = 0 THEN {"Invoice has no line items"} ELSE {})]

\* Another invoice of the shop and supplier was processed, with the most
\* recent invoiceDate so far.
Processed(total) ==
  /\ trend.op = "none"
  /\ Len(history) < MaxHistory
  /\ history' = <<total>> \o history
  /\ UNCHANGED <<trend, jobVars, scanVars, entityVars>>

\* analyzeTrends for an invoice with the given total and number of line
\* items; a throw of the query is answered by the catch.
AnalyzeTrends(currentTotal, items) ==
  /\ trend.op = "none"
  /\ \E outcome \in Outcomes("db") :
       trend' = IF outcome = "throws"
                THEN [NoTrend EXCEPT !.op = "error", !.anomalies = {"Error analyzing trends"}]
                ELSE TrendAnalysisResult(HistoricalInvoices(history), currentTotal, items)
  /\ UNCHANGED <<history, jobVars, scanVars, entityVars>>

\* ------------------------------------------------------------- Init
\* Hash values are named in order of first use.
Contents ==
  {c \in [Jobs -> Hashes] :
     /\ c[1] = 1
     /\ \A j \in Jobs : j > 1 => \E i \in 1..(j - 1) : c[j] <= c[i] + 1}

\* The single worker process the deployment runs (npm run worker).
Driver == 1

\* A lease left behind by a process that exited right after its claim.
Abandoned ==
  [NewInvoice EXCEPT !.status = "processing", !.stage = "acquired", !.lockedAt = LockedNow]

\* The record after n failed attempts whose download threw.
Retried(n) ==
  IF n = 0 THEN NewInvoice
  ELSE [NewInvoice EXCEPT !.attempts = n, !.lastError = ErrorMessage("stage error")]

\* The record after the third such attempt.
Exhausted ==
  [NewInvoice EXCEPT !.status = "failed", !.stage = "failed",
                     !.attempts = MAX_RETRY_ATTEMPTS, !.lockedAt = LockedNow,
                     !.lastError = ErrorMessage("stage error")]

\* Files as scanned, the worker processes of W just started, the external
\* calls of the kinds F able to fail.
Started(W, F) ==
  /\ content \in Contents
  /\ folder = [j \in Jobs |-> "unprocessed"]
  /\ pc = [w \in Workers |-> IF w \in W THEN "idle" ELSE "stopped"]
  /\ invoice = [w \in Workers |-> NoDoc]
  /\ stuckInvoices = [w \in Workers |-> {}]
  /\ timer = [w \in Workers |-> IF w \in W THEN "direct" ELSE "none"]
  /\ req = NoRequest
  /\ faults = F
  /\ requests = 0
  /\ kills = 0
  /\ reached2 = <<>>
  /\ claimed = [j \in Jobs |-> 0]
  /\ scan = [s \in Scans |-> NoScan]
  /\ scanner = [s \in Scans |-> NoScanner]
  /\ suppliers = <<>>
  /\ parts = <<>>
  /\ returned = NoCall
  /\ seen = {}
  /\ calls = 0
  /\ history = <<>>
  /\ trend = NoTrend

\* The same, before any scan has created an Invoice document.
Booted(W, F) == Started(W, F) /\ invoices = <<>>

\* One driver loop, the request handlers and the clock; each job is freshly
\* scanned or holds a lease an earlier process left behind.
Init ==
  /\ store \in [Jobs -> {NewInvoice, Abandoned}]
  /\ Booted({Driver}, {"drive", "move"})

Next ==
  \/ WorkerStep(Driver)
  \/ Cancel
  \/ Reprocess
  \/ AdminUnlock
  \/ Tick

Spec == Init /\ [][Next]_vars

\* One driver loop on its own: no request arrives and the process is never
\* terminated.
InitSolo ==
  /\ store \in [Jobs -> {NewInvoice, Abandoned}]
  /\ Booted({Driver}, {"drive", "s3", "db", "ai"})

NextSolo ==
  \/ WorkerStep(Driver)
  \/ Tick

SpecSolo == InitSolo /\ [][NextSolo]_vars

\* One driver loop whose process may be terminated at any await and started
\* again (SIGTERM/SIGINT call process.exit, the file's last line calls
\* startWorker): every job is new, no request arrives.
InitCrash ==
  /\ store = [j \in Jobs |-> NewInvoice]
  /\ Booted({Driver}, {"drive"})

NextCrash ==
  \/ WorkerStep(Driver)
  \/ Terminate(Driver)
  \/ StartWorker(Driver)
  \/ Tick

SpecCrash == InitCrash /\ [][NextCrash]_vars

\* The terminating loop of SpecCrash as long as it runs: a started process
\* keeps taking its next step and time keeps passing. Nothing obliges a
\* stopped process to be started again.
SpecCrashLive ==
  /\ InitCrash
  /\ [][NextCrash]_vars
  /\ WF_vars(WorkerStep(Driver))
  /\ WF_vars(Tick)

\* One driver loop that keeps running: workerLoop always reschedules itself
\* and every awaited call returns or throws, so the loop's next step is
\* always taken (weak fairness); time keeps passing, so a lease left by an
\* earlier process does grow older.
InitLive ==
  /\ store \in [Jobs -> {NewInvoice, Abandoned}]
  /\ Booted({Driver}, {"drive"})

SpecLive ==
  /\ InitLive
  /\ [][NextSolo]_vars
  /\ WF_vars(WorkerStep(Driver))
  /\ WF_vars(Tick)

\* One Drive scan from POST /scan-drive to its end; Drive calls and the
\* scanner's database calls may throw. No worker runs.
InitScan ==
  /\ store = [j \in Jobs |-> NewInvoice]
  /\ Started({}, {"drive", "db"})
  /\ invoices \in {<<>>, <<HeldInvoice>>}

ScanStep(s) ==
  \/ ScanDrive(s)
  \/ ScanStart(s)
  \/ ScanFolders(s)
  \/ ScanShop(s)
  \/ ScanFile(s)
  \/ ScanCreate(s)
  \/ ScanComplete(s)
  \/ ScanFail(s)

\* One scan at a time: the first record's scan, with Drive and the store
\* able to fail.
NextScan == ScanStep(1)

SpecScan == InitScan /\ [][NextScan]_vars

\* Several POST /scan-drive requests whose scans run side by side; Drive
\* may fail, the store answers.
InitScans ==
  /\ store = [j \in Jobs |-> NewInvoice]
  /\ Started({}, {"drive"})
  /\ invoices \in {<<>>, <<HeldInvoice>>}

NextScans == \E s \in Scans : ScanStep(s)

SpecScans == InitScans /\ [][NextScans]_vars

\* The worker's stage 5 as a sequence of entity-resolution calls on names
\* and line items of any spelling, against collections that start empty.
InitEntities ==
  /\ store = [j \in Jobs |-> NewInvoice]
  /\ Booted({}, {})

NextEntities ==
  \/ \E name \in Names : ResolveSupplier(name)
  \/ \E item \in LineItems : ResolvePart(item)

SpecEntities == InitEntities /\ [][NextEntities]_vars

\* analyzeTrends on its own: invoices of one shop and supplier are processed
\* one after another, then the invoice at hand is analysed; the query may
\* throw.
InitTrends ==
  /\ store = [j \in Jobs |-> NewInvoice]
  /\ content = [j \in Jobs |-> 1]
  /\ Booted({}, {"db"})

NextTrends ==
  \/ \E total \in Totals : Processed(total)
  \/ \E total \in Totals, items \in 0..1 : AnalyzeTrends(total, items)

SpecTrends == InitTrends /\ [][NextTrends]_vars

\* N callers each invoke acquireAndLockInvoice once against a store that
\* holds exactly one eligible job; no lease is stale.
InitRace ==
  /\ \E e \in Jobs, n \in 0..(MAX_RETRY_ATTEMPTS - 1) :
       store \in [Jobs -> {Retried(n), Abandoned, Exhausted}]
         /\ \A j \in Jobs : store[j] = Retried(n) <=> j = e
  /\ Booted(Workers, {})

AcquireOnce(w) ==
  \/ timer[w] = "direct" /\ SweepFind(w)
  \/ Claim(w)

NextRace == \E w \in Workers : AcquireOnce(w)

SpecRace == InitRace /\ [][NextRace]_vars

\* ------------------------------------------------------ properties
\* The workers that hold a claimed job.
Holders == {w \in Workers : invoice[w] # NoDoc}

\* acquireAndLockInvoice has returned to caller w.
Returned(w) == pc[w] = "acquired" \/ (pc[w] = "idle" /\ timer[w] # "direct")

\* C1: with N callers racing acquireAndLockInvoice against a store holding
\* exactly one eligible job, the job is at every moment either still eligible
\* or held by exactly one caller, and once every caller has returned exactly
\* one of them holds it and the others received null.
C1_AtMostOneClaim ==
  /\ Cardinality(Holders) + Cardinality(Eligible) = 1
  /\ \A w \in Holders : store[invoice[w].id].status = "processing"
  /\ (\A w \in Workers : Returned(w)) =>
       /\ Cardinality(Holders) = 1
       /\ \A w \in Workers \ Holders : pc[w] = "idle" /\ timer[w] = "setTimeout"

C1_Witness ==
  /\ \A w \in Workers : Returned(w)
  /\ \E w \in Workers : invoice[w] # NoDoc /\ invoice[w].attempts > 0
  /\ \E w \in Workers : invoice[w] = NoDoc

\* The pipeline of the job worker w holds throws in this step.
Throws(w) ==
  /\ pc[w] \in PipelineStages
  /\ \/ pc'[w] = "fail_move"
     \/ pc'[w] = "idle" /\ timer'[w] = "setTimeout"

\* C2: the persisted attempts of a job change only by one, at the write that
\* follows a throw of its pipeline; the write that makes them 3 sets status
\* and stage to failed, and failed is final; a job that succeeds after fewer
\* than 3 throws becomes processed, and processed is final.
C2_AttemptCeiling ==
  [][\A j \in Jobs :
       LET r == store[j]
           r2 == store'[j]
       IN  /\ r2.attempts \in {r.attempts, r.attempts + 1}
           /\ r2.attempts = r.attempts + 1 =>
                /\ pc[Driver] \in PipelineStages \cup {"fail_save"}
                /\ invoice[Driver].id = j
                /\ IF r2.attempts >= MAX_RETRY_ATTEMPTS
                   THEN r2.attempts = 3 /\ r2.status = "failed" /\ r2.stage = "failed"
                   ELSE r2.status = "queued"
           /\ (Throws(Driver) /\ invoice[Driver].id = j) =>
                IF r.attempts = 2
                THEN pc'[Driver] = "fail_move" /\ invoice'[Driver].attempts = 3
                ELSE r2.attempts = r.attempts + 1
           /\ (pc[Driver] = "fail_save" /\ pc'[Driver] # "fail_save" /\ invoice[Driver].id = j) =>
                r2.attempts = 3 /\ r2.status = "failed" /\ r2.stage = "failed"
           /\ (pc[Driver] = "fin_save" /\ pc'[Driver] # "fin_save" /\ invoice[Driver].id = j) =>
                r2.status = "processed" /\ r2.attempts = r.attempts
           /\ r.status \in {"failed", "processed"} =>
                r2.status = r.status /\ r2.attempts = r.attempts]_vars

C2_Witness ==
  /\ \E j \in Jobs : store[j].status = "failed" /\ store[j].attempts = 3
  /\ \E j \in Jobs : store[j].status = "processed" /\ store[j].attempts = 2

\* The jobs the sweep's query matches.
StaleJobs == {j \in Jobs : IsStuck(store[j], STUCK_INVOICE_TIMEOUT_MS)}

\* C3: the sweep at the start of acquireAndLockInvoice loads exactly the jobs
\* that are processing with a lease older than 30 minutes, writes each of
\* them back with status queued, lockedAt cleared and a non-empty lastError,
\* and the claim step starts only when none of them is left.
C3_StaleLeaseRecovery ==
  [][/\ (pc[Driver] = "idle" /\ pc'[Driver] # "idle") =>
          {d.id : d \in stuckInvoices'[Driver]} = StaleJobs
     /\ \A d \in stuckInvoices[Driver] \ stuckInvoices'[Driver] :
          /\ store'[d.id].status = "queued"
          /\ store'[d.id].lockedAt = NoLock
          /\ store'[d.id].lastError # NoError
     /\ pc'[Driver] = "claim" => stuckInvoices'[Driver] = {}
     /\ (pc[Driver] = "claim" /\ pc'[Driver] # "claim") =>
          \A j \in Jobs : store'[j] = store[j] \/ invoice'[Driver].id = j]_vars

C3_Witness ==
  \E j \in Jobs :
    /\ store[j].status = "queued"
    /\ store[j].lockedAt = NoLock
    /\ store[j].lastError = ErrorMessage("Automatically unlocked")
    /\ pc[Driver] = "acquired" /\ invoice[Driver].id # j

\* C4: a call of acquireAndLockInvoice returns the job with the smallest
\* createdAt among the jobs that are queued with attempts < 3 at the moment
\* of the claim, and returns null only when there is none.
C4_FifoClaim ==
  [][(pc[Driver] = "claim" /\ pc'[Driver] # "claim") =>
       IF Eligible = {}
       THEN pc'[Driver] = "idle" /\ invoice'[Driver] = NoDoc
       ELSE /\ pc'[Driver] = "acquired"
            /\ invoice'[Driver].id \in Eligible
            /\ \A i \in Eligible : createdAt(invoice'[Driver].id) <= createdAt(i)]_vars

C4_Witness ==
  /\ pc[Driver] = "acquired"
  /\ \E i \in Eligible : createdAt(invoice[Driver].id) < createdAt(i)
  /\ store[invoice[Driver].id].attempts > 0

\* C5: a job whose persisted attempts are 3 or more has status failed, and
\* acquireAndLockInvoice never returns a job whose attempts are 3 or more,
\* whatever the interleaving of the worker, the sweep, the admin unlock,
\* cancel and reprocess.
C5_ExhaustedIsFailed ==
  /\ \A j \in Jobs : store[j].attempts >= MAX_RETRY_ATTEMPTS => store[j].status = "failed"
  /\ \A w \in Workers : pc[w] = "acquired" => invoice[w].attempts < MAX_RETRY_ATTEMPTS

\* The positions of processInvoice from the claim to the final save.
PcOrder ==
  <<"acquired", "downloading", "hashing", "checked", "uploading", "extracting",
    "resolving_entities", "classifying_context", "analyzing_trends",
    "generating_recommendations", "persisting", "fin_move", "fin_save">>

PcIndex(p) == CHOOSE n \in 1..Len(PcOrder) : PcOrder[n] = p

\* Worker w moves to a later position only from the one right before it, with
\* the same job in hand.
OneStageAtATime(w) ==
  (pc'[w] # pc[w] /\ \E n \in 2..Len(PcOrder) : PcOrder[n] = pc'[w]) =>
     /\ pc[w] = PcOrder[PcIndex(pc'[w]) - 1]
     /\ invoice'[w].id = invoice[w].id

\* C6: when the pipeline of a claimed job throws and the incremented attempts
\* stay below 3, the job is persisted with attempts one higher, lastError set
\* to the error, status and stage queued and lockedAt cleared; a queued job
\* leaves the stage queued only by a claim, and from the claim the worker goes
\* through the positions one by one starting with downloading.
C6_RetryRestartsFromStageOne ==
  [][/\ \A j \in Jobs :
          /\ (Throws(Driver) /\ invoice[Driver].id = j
                /\ invoice[Driver].attempts + 1 < MAX_RETRY_ATTEMPTS) =>
               /\ store'[j].attempts = invoice[Driver].attempts + 1
               /\ store'[j].attempts = store[j].attempts + 1
               /\ store'[j].lastError.kind \in {"stage error", "Duplicate invoice detected"}
               /\ store'[j].status = "queued"
               /\ store'[j].stage = "queued"
               /\ store'[j].lockedAt = NoLock
               /\ pc'[Driver] = "idle"
          /\ (store[j].stage = "queued" /\ store'[j].stage # "queued") =>
               /\ store'[j].stage = "acquired"
               /\ pc'[Driver] = "acquired"
               /\ invoice'[Driver].id = j
     /\ (pc[Driver] = "acquired" /\ pc'[Driver] # "acquired") =>
          /\ pc'[Driver] = "downloading"
          /\ store'[invoice[Driver].id].stage = "downloading"
     /\ OneStageAtATime(Driver)]_vars

C6_Witness ==
  \E j \in Jobs :
    /\ store[j].attempts = 1
    /\ store[j].status = "processing"
    /\ store[j].stage = "downloading"
    /\ store[j].originalS3Key # "none"
    /\ pc[Driver] = "downloading" /\ invoice[Driver].id = j

\* The jobs other than j that have reached stage 2 with the bytes of j.
SameBytesArrived(j) ==
  {i \in Jobs \ {j} : content[i] = content[j] /\ \E n \in 1..Len(reached2) : reached2[n] = i}

\* Job j was not the first of them to reach stage 2.
ArrivedLater(j) ==
  \E m, n \in 1..Len(reached2) :
    m < n /\ reached2[n] = j /\ reached2[m] \in SameBytesArrived(j)

\* The error a throw of worker w records in this step.
Recorded(w) ==
  IF pc'[w] = "fail_move" THEN invoice'[w].lastError ELSE store'[invoice[w].id].lastError

\* C7: a job that reaches stage 2 after another job with the same bytes fails
\* the stage with a duplicate error naming a job that reached it with those
\* bytes (the first one, when there are two); when that job is processed and
\* this is the first attempt, the attempt ends with attempts 1, status queued.
C7_DuplicateDetection ==
  [][(pc[Driver] = "hashing" /\ pc'[Driver] # "hashing"
        /\ ArrivedLater(invoice[Driver].id)) =>
       LET j == invoice[Driver].id
       IN  /\ Throws(Driver)
           /\ Recorded(Driver).kind = "Duplicate invoice detected"
           /\ Recorded(Driver).ref \in SameBytesArrived(j)
           /\ ((\A i \in SameBytesArrived(j) : store[i].status = "processed")
                 /\ store[j].attempts = 0) =>
                /\ store'[j].attempts = 1
                /\ store'[j].status = "queued"
                /\ store'[j].lastError = Recorded(Driver)]_vars

C7_Witness ==
  \E i, j \in Jobs :
    /\ i # j
    /\ store[i].status = "processed"
    /\ reached2 = <<i, j>>
    /\ store[j].lastError = DuplicateError(i)
    /\ store[j].attempts = 1
    /\ store[j].status = "queued"

\* The stages whose collaborator absorbs its own failure, and the values the
\* stage may store.
Absorbing ==
  [classifying_context |-> [field |-> "context", values |-> {"classified", "default_routine"}],
   analyzing_trends |-> [field |-> "trendAnalysis", values |-> {"numeric", "no_history", "error_note"}],
   generating_recommendations |-> [field |-> "recommendations", values |-> {"list", "empty"}]]

\* C8: whatever the classification, trend or recommendation collaborator
\* does, the step of stage 6, 7 or 8 leaves attempts and status alone, stores
\* the collaborator's result or its fallback value and checkpoints the next
\* stage: a failure there never ends the attempt.
C8_CollaboratorAbsorption ==
  [][(pc[Driver] \in DOMAIN Absorbing /\ pc'[Driver] # pc[Driver]) =>
       LET j == invoice[Driver].id
           a == Absorbing[pc[Driver]]
       IN  /\ pc'[Driver] = NextStage(pc[Driver])
           /\ store'[j].stage = NextStage(pc[Driver])
           /\ store'[j].attempts = store[j].attempts
           /\ store'[j].status = "processing"
           /\ store'[j].lastError = store[j].lastError
           /\ store'[j][a.field] \in a.values]_vars

C8_Witness ==
  \E j \in Jobs :
    /\ store[j].status = "processed"
    /\ store[j].attempts = 0
    /\ store[j].lastError = NoError
    /\ store[j].context = "default_routine"
    /\ store[j].trendAnalysis = "error_note"
    /\ store[j].recommendations = "empty"

\* C9: a processed job has originalS3Key, processedS3Key and hashSha256 set
\* and totals and lineItems populated; a job becomes processed only by the
\* final save of the worker that holds it, and the worker gets there only by
\* going through every position of the pipeline in order with that job.
C9_ProcessedIsComplete ==
  /\ [](\A j \in Jobs : store[j].status = "processed" =>
          /\ store[j].originalS3Key # "none"
          /\ store[j].processedS3Key # "none"
          /\ store[j].hashSha256 # 0
          /\ store[j].totals # "none"
          /\ store[j].lineItems # "empty")
  /\ [][/\ \A j \in Jobs :
             (store'[j].status = "processed" /\ store[j].status # "processed") =>
                pc[Driver] = "fin_save" /\ invoice[Driver].id = j
        /\ OneStageAtATime(Driver)
        /\ pc'[Driver] = "acquired" => pc[Driver] \in {"acquired", "claim"}]_vars

C9_Witness ==
  \E j \in Jobs :
    /\ store[j].status = "processed"
    /\ store[j].attempts = 2
    /\ store[j].hashSha256 = content[j]

\* One move of a job's persisted stage: it stays, goes to the next stage of
\* the order, ends the attempt (queued or failed), or starts one (acquired).
StageMove(s, t) ==
  \/ t = s
  \/ \E n \in 1..(Len(StageOrder) - 1) : s = StageOrder[n] /\ t = StageOrder[n + 1]
  \/ s \in PipelineStages \cup {"acquired"} /\ t \in {"queued", "failed"}
  \/ s = "queued" /\ t = "acquired"

\* C10: the persisted stage of a job moves only to the next stage of the
\* order acquired, downloading, ..., persisting, completed; it leaves the
\* order only when the attempt ends, and is back at acquired only when a
\* claim starts a new attempt on the queued job.
C10_StageForwardOnly ==
  [][\A j \in Jobs :
       /\ StageMove(store[j].stage, store'[j].stage)
       /\ (store'[j].stage = "acquired" /\ store[j].stage # "acquired") =>
            /\ pc[Driver] = "claim"
            /\ store[j].status = "queued"
            /\ store'[j].status = "processing"]_vars

C10_Witness ==
  \E j \in Jobs :
    /\ store[j].attempts = 2
    /\ store[j].stage = "completed"
    /\ store[j].lastError # NoError

\* The stage whose side effect the worker at position p is inside: the
\* position after the duplicate lookup still belongs to stage 2.
InsideStage(p) == IF p = "checked" THEN "hashing" ELSE p

StagePositions == PipelineStages \cup {"checked"}

\* C11: with no request interfering, whenever the driver loop is inside one
\* of the nine stages the persisted processing.stage of its job is that
\* stage's name, and when the process is terminated inside a stage the stage
\* left in the store names it.
C11_CheckpointBeforeSideEffect ==
  [][/\ pc'[Driver] \in StagePositions =>
          store'[invoice'[Driver].id].stage = InsideStage(pc'[Driver])
     /\ (pc[Driver] \in StagePositions /\ pc'[Driver] = "stopped") =>
          store'[invoice[Driver].id].stage = InsideStage(pc[Driver])]_vars

C11_Witness ==
  /\ pc[Driver] = "stopped"
  /\ \E j \in Jobs : store[j].status = "processing" /\ store[j].stage = "extracting"

\* C12: at the step that attempts the move of the source file to the
\* processed folder, the job is already persisted with status processed and
\* stage completed.
C12_ProcessedPersistedBeforeMove ==
  [][(pc[Driver] = "fin_move" /\ pc'[Driver] = "fin_save") =>
       /\ store[invoice[Driver].id].status = "processed"
       /\ store[invoice[Driver].id].stage = "completed"]_vars

\* The persisted status, stage and attempts of every job.
Progress == [j \in Jobs |-> <<store[j].status, store[j].stage, store[j].attempts>>]

\* C13: in the four move paths (finalization, terminal failure, cancel,
\* reprocess) the lookup-and-move step leaves every persisted status, stage
\* and attempt count and the document in hand untouched and continues to
\* the handler's save, whether the move succeeded or threw; the save then
\* writes the values the handler assigned (a request's save writes only the
\* fields whose assigned value differs from the one it loaded).
C13_MoveIsBestEffort ==
  [][/\ (pc[Driver] = "fin_move" /\ pc'[Driver] # "fin_move") =>
          pc'[Driver] = "fin_save" /\ invoice' = invoice /\ Progress' = Progress
     /\ (pc[Driver] = "fail_move" /\ pc'[Driver] # "fail_move") =>
          pc'[Driver] = "fail_save" /\ invoice' = invoice /\ Progress' = Progress
     /\ (req.op = "cancel_loaded" /\ req' # req) =>
          req' = [req EXCEPT !.op = "cancel_moved"] /\ Progress' = Progress
     /\ (req.op = "reprocess_loaded" /\ req' # req) =>
          req' = [req EXCEPT !.op = "reprocess_moved"] /\ Progress' = Progress
     /\ (pc[Driver] = "fin_save" /\ pc'[Driver] # "fin_save") =>
          /\ store'[invoice[Driver].id].status = "processed"
          /\ store'[invoice[Driver].id].stage = "completed"
          /\ store'[invoice[Driver].id].attempts = store[invoice[Driver].id].attempts
     /\ (pc[Driver] = "fail_save" /\ pc'[Driver] # "fail_save") =>
          /\ store'[invoice[Driver].id].status = "failed"
          /\ store'[invoice[Driver].id].stage = "failed"
          /\ store'[invoice[Driver].id].attempts = invoice[Driver].attempts
     /\ (req.op \in {"cancel_moved", "reprocess_moved"} /\ req' # req) =>
          \A d \in req.docs :
            /\ store'[d.id].status \in {"queued", store[d.id].status}
            /\ store'[d.id].stage \in {"queued", store[d.id].stage}
            /\ store'[d.id].attempts \in {0, store[d.id].attempts}]_vars

\* The move to the processed folder threw (no request ever touched the file)
\* and the worker is about to save the finished job.
C13_Witness ==
  /\ pc[Driver] = "fin_save"
  /\ requests = 0
  /\ folder[invoice[Driver].id] = "unprocessed"

\* The positions from which processInvoice ends by re-raising an error.
ThrowingPositions == StagePositions \cup {"fail_save"}

\* C14: at the step where processInvoice re-raises an error to the driver
\* loop, the record of the job it worked on is persisted with the attempt
\* counted, the error recorded and the new status: queued below the ceiling,
\* failed at it, never processing.
C14_PersistedBeforeRethrow ==
  [][(pc[Driver] \in ThrowingPositions /\ pc'[Driver] = "idle"
        /\ timer'[Driver] = "setTimeout") =>
       LET j == invoice[Driver].id
           n == IF pc[Driver] = "fail_save"
                THEN invoice[Driver].attempts ELSE invoice[Driver].attempts + 1
       IN  /\ store'[j].attempts = n
           /\ store'[j].lastError # NoError
           /\ store'[j].status = IF n >= MAX_RETRY_ATTEMPTS THEN "failed" ELSE "queued"
           /\ store'[j].status # "processing"]_vars

C14_Witness ==
  /\ pc[Driver] = "idle"
  /\ timer[Driver] = "setTimeout"
  /\ \E j \in Jobs :
       /\ store[j].status = "queued"
       /\ store[j].attempts = 1
       /\ store[j].lastError = ErrorMessage("stage error")

\* C15: when processInvoice returns to the driver loop, the next iteration
\* is scheduled with setTimeout(PROCESSING_INTERVAL_MS) if no job was
\* claimed, with setImmediate if a job was processed, and with
\* setTimeout(PROCESSING_INTERVAL_MS) if processInvoice threw.
C15_LoopScheduling ==
  [][(pc[Driver] # "idle" /\ pc'[Driver] = "idle") =>
       /\ pc[Driver] = "claim" => timer'[Driver] = "setTimeout"
       /\ pc[Driver] = "fin_save" => timer'[Driver] = "setImmediate"
       /\ pc[Driver] \in ThrowingPositions => timer'[Driver] = "setTimeout"
       /\ pc[Driver] \in {"claim", "fin_save"} \cup ThrowingPositions]_vars

\* A job was just processed after the other one had thrown once.
C15_Witness ==
  /\ pc[Driver] = "idle"
  /\ timer[Driver] = "setImmediate"
  /\ \E i, j \in Jobs :
       /\ store[i].status = "processed"
       /\ store[j].status = "queued" /\ store[j].attempts = 1

\* The jobs persisted as processing under a lease that has not expired.
ActiveLeases ==
  {j \in Jobs : /\ store[j].status = "processing"
                /\ ~OlderThan(store[j].lockedAt, STUCK_INVOICE_TIMEOUT_MS)}

\* The job the driver loop is working on, if any.
InHand == IF invoice[Driver] = NoDoc THEN {} ELSE {invoice[Driver].id}

\* C16 as stated: with a single driver loop, at most one job is processing
\* under a non-expired lease at every instant.
C16_OneActiveLease == Cardinality(ActiveLeases) <= 1

\* C16, amended: the driver loop works on at most one job at a time, and
\* the jobs that are processing under a non-expired lease are the job in its
\* hand plus at most one abandoned job per termination of the worker
\* process; as long as the process was never terminated there is at most one.
C16_OneJobInHand ==
  /\ Cardinality(InHand) <= 1
  /\ Cardinality(ActiveLeases \ InHand) <= kills
  /\ Cardinality(ActiveLeases) <= 1 + kills

\* The restarted loop works on one job while the job abandoned by the
\* terminated process still holds its lease.
C16_Witness ==
  /\ Cardinality(ActiveLeases) = 2
  /\ pc[Driver] \in StagePositions

\* C17: once a cancel has set a job to queued while the driver loop still
\* has that job's pipeline in flight, no later step of that pipeline (stage
\* checkpoint, finalization, retry or failure write) changes the persisted
\* status away from queued.
C17_CancelWinsLeaseRace ==
  [][\A j \in Jobs :
       (/\ InHand = {j}
        /\ store[j].status = "queued"
        /\ store[j].lastError = ErrorMessage("Processing cancelled by user")) =>
       store'[j].status = "queued"]_vars

Terminal(j) == store[j].status \in {"processed", "failed"}

\* C18: once a job is persisted as processed or failed, its status, stage
\* and attempts change only by the save of a reprocess request: no step of
\* the driver loop (sweep, claim, stage persist, retry or failure write) and
\* no other request changes them.
C18_TerminalUntilReprocess ==
  [][\A j \in Jobs :
       (Terminal(j) /\ Progress'[j] # Progress[j]) =>
         /\ req.op = "reprocess_moved"
         /\ req' = NoRequest
         /\ \E d \in req.docs : d.id = j]_vars

\* C19: under a fair, continuously running driver loop whose stage calls all
\* return, every job that is queued with attempts below the ceiling is
\* eventually claimed, and every job eventually is processed or failed and
\* stays so.
C19_NoStarvation ==
  /\ \A j \in Jobs :
       (store[j].status = "queued" /\ store[j].attempts < MAX_RETRY_ATTEMPTS)
         ~> (store[j].status = "processing" /\ InHand = {j})
  /\ \A j \in Jobs : <>[]Terminal(j)

\* Every job is finished, one of them on its third claim after two failures.
C19_Witness ==
  /\ \A j \in Jobs : Terminal(j)
  /\ \E j \in Jobs : store[j].status = "processed" /\ store[j].attempts = 2

\* C20: with no cancel and no reprocess request, no job is claimed more
\* than MAX_RETRY_ATTEMPTS times over its life.
C20_ClaimsBounded == \A j \in Jobs : claimed[j] <= MAX_RETRY_ATTEMPTS

\* A job persisted as processing that no driver loop is working on.
AbandonedJob(j) == store[j].status = "processing" /\ InHand # {j}

\* C21: a job left processing by a terminated worker is, while a driver loop
\* is running, eventually returned to queued and then claimed again and
\* started from stage 1; it leaves processing only by the sweep of a polling
\* driver loop, on a lease older than the timeout, so nothing happens to it
\* while the process is stopped.
C21_AbandonedJobRecovered ==
  /\ \A j \in Jobs :
       (AbandonedJob(j) /\ pc[Driver] # "stopped")
         ~> (store[j].status = "queued" \/ pc[Driver] = "stopped")
  /\ \A j \in Jobs :
       (AbandonedJob(j) /\ pc[Driver] # "stopped")
         ~> ((InHand = {j} /\ pc[Driver] = "downloading"
                /\ invoice[Driver] = Copy(j, store[j]))
             \/ pc[Driver] = "stopped")
  /\ [][\A j \in Jobs :
          (AbandonedJob(j) /\ Progress'[j] # Progress[j]) =>
            /\ pc[Driver] = "unlocking"
            /\ OlderThan(store[j].lockedAt, STUCK_INVOICE_TIMEOUT_MS)
            /\ Progress'[j] = <<"queued", "queued", store[j].attempts>>]_vars

\* The job abandoned by the terminated process was re-queued by the sweep
\* and is in its second claim, at stage 1, with no attempt counted.
C21_Witness ==
  \E j \in Jobs :
    /\ kills = 1
    /\ claimed[j] = 2
    /\ store[j].attempts = 0
    /\ InHand = {j}
    /\ pc[Driver] = "downloading"

\* C22: the save of a reprocess request that loaded a processed or failed
\* job persists status queued, stage queued, attempts 0, no lease and no
\* error, so the job passes the claim filter with the full attempt budget.
C22_ReprocessResets ==
  [][(req.op = "reprocess_moved" /\ req' = NoRequest) =>
       \A d \in req.docs :
         d.status \in {"processed", "failed"} =>
           /\ store'[d.id].status = "queued"
           /\ store'[d.id].stage = "queued"
           /\ store'[d.id].attempts = 0
           /\ store'[d.id].lockedAt = NoLock
           /\ store'[d.id].lastError = NoError
           /\ d.id \in Eligible']_vars

\* A job that had used up its three attempts was reset by a reprocess and
\* is in its fourth claim with no attempt counted and no error recorded.
C22_Witness ==
  \E j \in Jobs :
    /\ claimed[j] = MAX_RETRY_ATTEMPTS + 1
    /\ InHand = {j}
    /\ store[j].status = "processing"
    /\ store[j].attempts = 0
    /\ store[j].lastError = NoError
    /\ req = NoRequest

CancelNote == ErrorMessage("Processing cancelled by user")

\* C23: a cancel request goes on to its save only when its findById saw
\* status processing, and its save then persists status queued, stage
\* queued, attempts 0, no lease and the cancellation note; a cancel that saw
\* any other status ends at once and leaves every record unchanged.
C23_CancelOnlyProcessing ==
  [][/\ (req.op = "none" /\ req'.op = "cancel_loaded") =>
          \A d \in req'.docs : store[d.id].status = "processing" /\ store' = store
     /\ (req.op = "cancel_moved" /\ req' = NoRequest) =>
          \A d \in req.docs :
            /\ store'[d.id].status = "queued"
            /\ store'[d.id].stage = "queued"
            /\ store'[d.id].attempts = 0
            /\ store'[d.id].lockedAt = NoLock
            /\ store'[d.id].lastError = CancelNote
     /\ (req.op = "none" /\ req' = NoRequest /\ requests' # requests) =>
          store' = store /\ folder' = folder]_vars

\* The messages of the errors the stage sequence throws.
FailureMessages ==
  {ErrorMessage("stage error")} \cup {DuplicateError(i) : i \in Jobs}

\* C24: in every persisted state a failed job has attempts equal to
\* MAX_RETRY_ATTEMPTS and a lastError that is the message of a pipeline
\* failure.
C24_FailedHasThreeAttemptsAndError ==
  \A j \in Jobs :
    store[j].status = "failed" =>
      /\ store[j].attempts = MAX_RETRY_ATTEMPTS
      /\ store[j].lastError \in FailureMessages

\* No handler holds a document of job j: not the driver loop, not a sweep in
\* its loop, not a request.
Quiet(j) ==
  /\ InHand # {j}
  /\ \A d \in req.docs : d.id # j
  /\ \A w \in Workers : \A d \in stuckInvoices[w] : d.id # j

\* The Drive folder the handlers move a file to for each status.
FolderFor(status) ==
  CASE status = "processed" -> "processed"
    [] status = "failed" -> "failed"
    [] status = "queued" -> "unprocessed"

\* C25: when every move succeeds and no operation on a job is in progress,
\* the job's file is in the processed folder if it is processed, in the
\* failed folder if it is failed and in the unprocessed folder if it is
\* queued.
C25_FolderMirrorsStatus ==
  \A j \in Jobs :
    (Quiet(j) /\ store[j].status \in {"processed", "failed", "queued"}) =>
      folder[j] = FolderFor(store[j].status)

\* The DriveScan lifecycle: one step forward at a time.
ScanMove(s, t) ==
  \/ s = t
  \/ s = "absent" /\ t = "pending"
  \/ s = "pending" /\ t = "running"
  \/ s = "running" /\ t \in {"completed", "failed"}

\* C26: a scan record is created pending, becomes running when
\* scanDriveForInvoices starts, ends completed or failed and then never
\* changes; an error inside one shop folder or at one file is counted and
\* never makes the scan failed.
C26_ScanLifecycle ==
  [][\A s \in Scans :
       /\ ScanMove(scan[s].status, scan'[s].status)
       /\ scan[s].status \in {"completed", "failed"} => scan'[s] = scan[s]
       /\ scan'[s].status = "running" => scanner'[s].pc \notin {"idle", "started", "done"}
       /\ scanner[s].pc \in {"shop", "file", "create"} => scanner'[s].pc # "failing"
       /\ (scan'[s].status = "completed" /\ scan[s].status # "completed") =>
            scanner[s].pc = "finishing" /\ ~scan'[s].error
       /\ (scan'[s].status = "failed" /\ scan[s].status # "failed") =>
            scanner[s].pc = "failing" /\ scan'[s].error]_vars

\* The scan completed although a shop folder or a file raised an error.
C26_Witness ==
  \E s \in Scans :
    /\ scan[s].status = "completed"
    /\ scan[s].stats[4] > 0
    /\ scan[s].stats[1] > 0

\* A supplier of collection S carries x as its normalized name or as an alias.
Knows(S, x) ==
  \E i \in 1..Len(S) : S[i].normalizedName = x \/ Includes(S[i].aliases, x)

NoDuplicate(seq) == \A k, l \in 1..Len(seq) : seq[k] = seq[l] => k = l

\* C27: resolveOrCreateSupplier creates a supplier only when no existing one
\* has the normalized name as normalizedName or among its aliases; otherwise
\* it returns an existing supplier that has it and appends the surface form
\* to that supplier's aliases exactly when it is not there yet. Aliases only
\* grow and hold no duplicate, and a call repeated with the same name returns
\* the same id and changes nothing.
C27_SupplierResolution ==
  [][returned'.op = "supplier" /\ calls' # calls =>
       LET name == returned'.name
           n == Normalized(name)
           id == returned'.id
       IN  /\ Len(suppliers') > Len(suppliers) <=> ~Knows(suppliers, n)
           /\ ~Knows(suppliers, n) =>
                /\ suppliers' = Append(suppliers, [normalizedName |-> n, aliases |-> <<name>>])
                /\ id = Len(suppliers')
           /\ Knows(suppliers, n) =>
                /\ id \in 1..Len(suppliers)
                /\ suppliers[id].normalizedName = n
                /\ suppliers'[id].aliases =
                     IF Includes(suppliers[id].aliases, name)
                     THEN suppliers[id].aliases
                     ELSE Append(suppliers[id].aliases, name)
                /\ \A i \in 1..Len(suppliers) : i # id => suppliers'[i] = suppliers[i]
           /\ \A i \in 1..Len(suppliers') : NoDuplicate(suppliers'[i].aliases)
           /\ (returned.op = "supplier" /\ returned.name = name) =>
                suppliers' = suppliers /\ id = returned.id]_vars

\* One supplier was created and then found again twice, under two further
\* spellings of its name.
C27_Witness ==
  /\ Len(suppliers) = 1
  /\ Len(suppliers[1].aliases) = 3
  /\ returned.op = "supplier"
  /\ returned.id = 1

PartsWith(P, d) == {i \in 1..Len(P) : P[i].normalizedDesc = d}

\* C28 as stated: after resolveOrCreateParts there is exactly one Part for
\* every distinct normalized description it handled.
C28_OnePartPerDescription ==
  \A d \in seen : Cardinality(PartsWith(parts, d)) = 1

\* C28, amended: after an item is handled there is a Part with its
\* normalized description unless the item carried a sku that an existing
\* Part already had; no two Parts share a description; existing Parts keep
\* their description, and a Part's sku changes only from none to the sku of
\* the item at hand.
C28_PartPerDescriptionOrSku ==
  [][returned'.op = "part" /\ calls' # calls =>
       LET n == Normalized(returned'.name)
           sku == returned'.sku
       IN  /\ \/ PartsWith(parts', n) # {}
              \/ sku # NoSku /\ \E i \in 1..Len(parts) : parts[i].sku = sku
           /\ \A d \in seen' : Cardinality(PartsWith(parts', d)) <= 1
           /\ Len(parts') >= Len(parts)
           /\ \A i \in 1..Len(parts) :
                /\ parts'[i].normalizedDesc = parts[i].normalizedDesc
                /\ \/ parts'[i].sku = parts[i].sku
                   \/ parts[i].sku = NoSku /\ parts'[i].sku = sku /\ i = returned'.id]_vars

\* Three items were handled and left a single Part that carries a sku, while
\* a description that was seen has no Part: its item matched by sku.
C28_Witness ==
  /\ Len(parts) = 1
  /\ parts[1].sku # NoSku
  /\ returned.op = "part"
  /\ calls = 3
  /\ \E d \in seen : PartsWith(parts, d) = {}

\* The other jobs whose persisted hash is the hash of the bytes of job j.
OthersWithHash(j) == {i \in Jobs \ {j} : store[i].hashSha256 = content[j]}

\* The value a throw of the driver leaves in a field of its job: saved at
\* once when the job is re-queued, carried to the save after the file move
\* when the attempt was the last one.
Thrown(field) ==
  IF pc'[Driver] = "fail_move" THEN invoice'[Driver][field] ELSE store'[invoice[Driver].id][field]

UnlockFields == {"status", "stage", "lockedAt", "lastError"}

\* A step of the sweep's loop or of the admin endpoint's loop over the
\* documents its find returned.
UnlockStep ==
  \/ pc[Driver] = "unlocking" /\ stuckInvoices'[Driver] # stuckInvoices[Driver]
  \/ req.op = "unlock" /\ req' # req

\* C30: a save of the stale-lease sweep or of the admin unlock endpoint
\* touches one job and, of that job, only status, stage, lockedAt and
\* lastError. The first three become queued, queued and none; lastError
\* becomes the unlock note, or stays as stored when the document read by
\* the find already carried that note, since save() does not write a path
\* assigned the value it had. attempts and every other field, the bytes
\* and the Drive folder stay as they were.
C30_UnlockFrame ==
  [][UnlockStep =>
       /\ \E j \in Jobs :
            /\ \A i \in Jobs \ {j} : store'[i] = store[i]
            /\ \A f \in Fields \ UnlockFields : store'[j][f] = store[j][f]
            /\ store'[j].status = "queued"
            /\ store'[j].stage = "queued"
            /\ store'[j].lockedAt = NoLock
            /\ \/ store'[j].lastError \in {ErrorMessage("Automatically unlocked"),
                                           ErrorMessage("Manually unlocked")}
               \/ store'[j].lastError = store[j].lastError
       /\ content' = content
       /\ folder' = folder
       /\ claimed' = claimed]_vars

\* The sweep unlocked one job and the admin endpoint another, which had
\* already used an attempt and keeps it.
C30_Witness ==
  \E i, j \in Jobs :
    /\ store[i].lastError = ErrorMessage("Automatically unlocked")
    /\ store[j].lastError = ErrorMessage("Manually unlocked")
    /\ store[j].status = "queued"
    /\ store[j].attempts >= 1

\* ------------------------------------------------ two driver loops
\* Two worker processes deployed side by side on a store of new jobs, over
\* a run shorter than the lease timeout: no lease goes stale, so the sweep
\* finds nothing to unlock.
InitPair ==
  /\ store = [j \in Jobs |-> NewInvoice]
  /\ Booted(Workers, {})

PipelineStep(w) ==
  \/ SweepFind(w) \/ Claim(w)
  \/ BeginStages(w) \/ Download(w) \/ Hash(w) \/ AfterHash(w) \/ Upload(w)
  \/ Extract(w) \/ Resolve(w) \/ Classify(w) \/ Analyze(w) \/ Recommend(w)
  \/ Persist(w) \/ FinalizeMove(w) \/ FinalizeSave(w) \/ FailMove(w) \/ FailSave(w)

NextPair == \E w \in Workers : PipelineStep(w)

SpecPair == InitPair /\ [][NextPair]_vars

\* C31: no two processed jobs share a hashSha256.
C31_ProcessedHashesDistinct ==
  \A i, j \in Jobs :
    (i # j /\ store[i].status = "processed" /\ store[j].status = "processed")
      => store[i].hashSha256 # store[j].hashSha256

\* C32: at stage 2 the job that was the first to arrive there with its bytes
\* is never rejected as a duplicate.
C32_FirstNeverRejected ==
  [][(pc[Driver] = "hashing" /\ ~ArrivedLater(invoice[Driver].id)) =>
       ~(Throws(Driver) /\ Recorded(Driver).kind = "Duplicate invoice detected")]_vars

\* C33: in every persisted record status and stage agree: queued with
\* queued, processed with completed, failed with failed, and processing with
\* acquired or one of the nine stage names.
C33_StatusStageAgree ==
  \A j \in Jobs :
    /\ store[j].status = "queued" <=> store[j].stage = "queued"
    /\ store[j].status = "processed" <=> store[j].stage = "completed"
    /\ store[j].status = "failed" <=> store[j].stage = "failed"
    /\ store[j].status = "processing" <=> store[j].stage \in {"acquired"} \cup PipelineStages

\* C34: every persisted attempts value lies in 0..MAX_RETRY_ATTEMPTS.
C34_AttemptsInRange ==
  \A j \in Jobs : store[j].attempts \in 0..MAX_RETRY_ATTEMPTS

\* A stale-copy save has left a job queued with the retry budget used up.
C34_Witness ==
  \E j \in Jobs : store[j].status = "queued" /\ store[j].attempts = MAX_RETRY_ATTEMPTS

Scheduled == {"direct", "setImmediate", "setTimeout"}

\* C36: in a running worker process exactly one call of workerLoop is
\* pending whenever no processInvoice is in flight, and none while one is:
\* a tick starts only by consuming the pending call, and the next one is
\* scheduled only by the step that settles processInvoice (or by
\* startWorker), on every path.
C36_TicksNeverOverlap ==
  /\ [](pc[Driver] \notin {"idle", "stopped"} => timer[Driver] = "running")
  /\ [](pc[Driver] = "idle" => timer[Driver] \in Scheduled)
  /\ [][(pc[Driver] = "idle" /\ pc'[Driver] \notin {"idle", "stopped"}) =>
          timer'[Driver] = "running"]_vars
  /\ [][(timer'[Driver] \in Scheduled /\ timer'[Driver] # timer[Driver]) =>
          \/ timer[Driver] = "running" /\ pc[Driver] # "idle" /\ pc'[Driver] = "idle"
          \/ pc[Driver] = "stopped"]_vars

\* The error path has settled and left one delayed tick pending, in a
\* process that was started again after a kill.
C36_Witness ==
  /\ pc[Driver] = "idle"
  /\ timer[Driver] = "setTimeout"
  /\ kills = 1
  /\ \E j \in Jobs : store[j].status = "queued" /\ store[j].attempts >= 1

\* What a scan may do to the Invoice collection in one step: nothing, or
\* append one queued job with no attempt made.
OnlyCreates ==
  \/ invoices' = invoices
  \/ \E f \in (1..NShops) \X (1..NFiles) : invoices' = Append(invoices, ScannedInvoice(f))

\* C37: no step of a scan changes or removes an Invoice document; a
\* document it adds is queued at stage queued with attempts 0; and the step
\* that finds a job for the file at hand pushes an entry 'existing' and
\* adds nothing.
C37_ScanOnlyCreates ==
  [][/\ OnlyCreates
     /\ \A s \in Scans :
          (scanner[s].pc = "file" /\ scanner'[s] # scanner[s]
             /\ Len(scanner'[s].scannedFiles) > Len(scanner[s].scannedFiles)
             /\ scanner'[s].scannedFiles[Len(scanner'[s].scannedFiles)].status # "skipped") =>
            /\ InvoicesOf(FileId(scanner[s])) # {}
            /\ scanner'[s].scannedFiles[Len(scanner'[s].scannedFiles)] =
                 [fileId |-> FileId(scanner[s]), status |-> "existing"]
            /\ invoices' = invoices
     /\ \A s \in Scans :
          (scanner[s].pc = "file" /\ scanner'[s].pc = "create") =>
            InvoicesOf(FileId(scanner[s])) = {}]_vars

\* A completed scan met the job of an earlier scan, left it as it was and
\* created a job for another file.
C37_Witness ==
  \E s \in Scans :
    /\ scan[s].status = "completed"
    /\ scan[s].stats[2] > 0
    /\ scan[s].stats[1] > 0
    /\ Len(invoices) > 1
    /\ invoices[1] = HeldInvoice

\* C38: at most one Invoice document exists for each driveFileId.
C38_OneJobPerFile ==
  \A i, j \in 1..Len(invoices) :
    invoices[i].driveFileId = invoices[j].driveFileId => i = j

\* The number of entries of scannedFiles with the given status.
Entries(files, status) == Cardinality({n \in 1..Len(files) : files[n].status = status})

\* C39: in a completed scan record totalFound is the number of scannedFiles
\* entries, newInvoices, existingInvoices and skipped are the numbers of
\* entries new, existing and skipped, and errors is the number of entries
\* error plus the number of shop folders whose scan failed as a whole.
C39_CountersMatchEntries ==
  \A s \in Scans :
    scan[s].status = "completed" =>
      /\ scan[s].stats[5] = Len(scan[s].scannedFiles)
      /\ scan[s].stats[1] = Entries(scan[s].scannedFiles, "new")
      /\ scan[s].stats[2] = Entries(scan[s].scannedFiles, "existing")
      /\ scan[s].stats[3] = Entries(scan[s].scannedFiles, "skipped")
      /\ scan[s].stats[4] = Entries(scan[s].scannedFiles, "error") + scanner[s].failed

\* The first n elements of a sequence, or all of it when it is shorter.
FirstN(seq, n) == SubSeq(seq, 1, IF Len(seq) < n THEN Len(seq) ELSE n)

\* C40 as stated: with no processed invoice of the shop and supplier the
\* result is a note without numbers; otherwise priceChange is the current
\* total minus the mean of the totals of the ten most recent ones, a price
\* anomaly is flagged exactly when |priceChange| > 0.2 * mean, and the
\* missing line items are flagged exactly when there are none.
C40_TrendAgainstMean ==
  [][(trend'.op = "ok" /\ trend.op = "none") =>
       LET recent == FirstN(history, 10)
           n == Len(recent)
           sum == Sum(recent)
           cur == trend'.total
       IN  IF n = 0
           THEN ~trend'.numeric /\ Cardinality(trend'.anomalies) = 1
           ELSE /\ trend'.numeric
                /\ trend'.priceChange[1] * n = (cur * n - sum) * trend'.priceChange[2]
                /\ "price" \in trend'.anomalies <=> 5 * Abs(cur * n - sum) > sum
                /\ "Invoice has no line items" \in trend'.anomalies <=> trend'.items = 0]_vars

\* C40, amended: the mean is taken over the positive totals among the ten
\* most recent processed invoices; when there is none of those, the result
\* is a note without numbers.
C40_TrendAgainstPositiveMean ==
  [][(trend'.op = "ok" /\ trend.op = "none") =>
       LET recent == FirstN(history, 10)
           positive == {k \in 1..Len(recent) : recent[k] > 0}
           n == Cardinality(positive)
           sum == Sum(recent)
           cur == trend'.total
       IN  IF n = 0
           THEN ~trend'.numeric /\ Cardinality(trend'.anomalies) = 1
           ELSE /\ trend'.numeric
                /\ trend'.priceChange[1] * n = (cur * n - sum) * trend'.priceChange[2]
                /\ "price" \in trend'.anomalies <=> 5 * Abs(cur * n - sum) > sum
                /\ "Invoice has no line items" \in trend'.anomalies <=> trend'.items = 0
                /\ trend'.anomalies \subseteq {"price", "Invoice has no line items"}]_vars

\* Eleven invoices were processed; the oldest, the only one with another
\* total, is left out of the mean, so a current total equal to the mean of
\* the ten recent ones raises no price anomaly, and the missing line items
\* are flagged.
C40_Witness ==
  /\ Len(history) = 11
  /\ history[11] = 4
  /\ \A k \in 1..10 : history[k] = 6
  /\ trend.op = "ok"
  /\ trend.total = 6
  /\ trend.numeric
  /\ trend.priceChange[1] = 0
  /\ trend.anomalies = {"Invoice has no line items"}

====
